---- MODULE Spec2Model ----
(***************************************************************************)
(* Bookworm OCR + metadata service (llm-service/app.py, llm-service/ocr.py) *)
(* The /extract request pipeline: recognition, regex hints, the two        *)
(* completion calls, normalization, merge and the response.                 *)
(*                                                                         *)
(* Text is a sequence of characters; a character is a one-token string.    *)
(* ASCII characters stand for themselves; a Cyrillic capital letter is     *)
(* "RU_<NAME>", a small one "ru_<name>" (Unicode letter names), and        *)
(* EMDASH, ENDASH, MINUS, COPY are U+2014, U+2013, U+2212, U+00A9.          *)
(***************************************************************************)
EXTENDS Integers, Sequences, FiniteSets, TLC

\* one /extract request: where its handler stands, the request, the texts
\* recognized, the hints, the answer of the catalog completion call, the two
\* records, the response, and the calls made to Tesseract, the vision model and
\* the completion model
VARIABLES pc, req, ocr_cover, ocr_info, ocr_eng, hints, catalog_answer, cover_data,
          info_data, response, calls

\* one call of a function on its own: its argument and what it returned
VARIABLES input, output, serving, best_result

vars == <<pc, req, ocr_cover, ocr_info, ocr_eng, hints, catalog_answer, cover_data,
          info_data, response, calls, input, output, serving,
          best_result>>

(***************************************************************************)
(* Characters and character classes of the regular expressions             *)
(***************************************************************************)
LatUpperSeq == <<
    "A", "B", "C", "D", "E", "F", "G", "H", "I", "J", "K", "L", "M", "N", "O", "P", "Q",
    "R", "S", "T", "U", "V", "W", "X", "Y", "Z" >>
LatLowerSeq == <<
    "a", "b", "c", "d", "e", "f", "g", "h", "i", "j", "k", "l", "m", "n", "o", "p", "q",
    "r", "s", "t", "u", "v", "w", "x", "y", "z" >>
CyrUpperSeq == <<
    "RU_A", "RU_BE", "RU_VE", "RU_GHE", "RU_DE", "RU_IE", "RU_ZHE", "RU_ZE", "RU_I",
    "RU_SHORT_I", "RU_KA", "RU_EL", "RU_EM", "RU_EN", "RU_O", "RU_PE", "RU_ER", "RU_ES",
    "RU_TE", "RU_U", "RU_EF", "RU_HA", "RU_TSE", "RU_CHE", "RU_SHA", "RU_SHCHA",
    "RU_HARD_SIGN", "RU_YERU", "RU_SOFT_SIGN", "RU_E", "RU_YU", "RU_YA", "RU_IO" >>
CyrLowerSeq == <<
    "ru_a", "ru_be", "ru_ve", "ru_ghe", "ru_de", "ru_ie", "ru_zhe", "ru_ze", "ru_i",
    "ru_short_i", "ru_ka", "ru_el", "ru_em", "ru_en", "ru_o", "ru_pe", "ru_er", "ru_es",
    "ru_te", "ru_u", "ru_ef", "ru_ha", "ru_tse", "ru_che", "ru_sha", "ru_shcha",
    "ru_hard_sign", "ru_yeru", "ru_soft_sign", "ru_e", "ru_yu", "ru_ya", "ru_io" >>
OldUpperSeq == <<
    "RU_YAT", "RU_I_DECIMAL", "RU_IZHITSA", "RU_FITA" >>
OldLowerSeq == <<
    "ru_yat", "ru_i_decimal", "ru_izhitsa", "ru_fita" >>

Range(s) == {s[i] : i \in DOMAIN s}

\* [A-Z], [a-z], [A-YA IO] and [a-ya io] of the patterns, \d and \s
LatUpper == Range(LatUpperSeq)
LatLower == Range(LatLowerSeq)
CyrUpper == Range(CyrUpperSeq)
CyrLower == Range(CyrLowerSeq)
Digit == {"0", "1", "2", "3", "4", "5", "6", "7", "8", "9"}
Space == {" ", "\n", "\t", "\r"}
\* \w of Python's str patterns: letters, digits and the underscore
WordChar == LatUpper \cup LatLower \cup CyrUpper \cup CyrLower
            \cup Range(OldUpperSeq) \cup Range(OldLowerSeq) \cup Digit \cup {"_"}

(***************************************************************************)
(* Python str operations used by the service                               *)
(***************************************************************************)
RECURSIVE LStrip(_)
LStrip(s) == IF Len(s) > 0 /\ Head(s) \in Space THEN LStrip(Tail(s)) ELSE s

RECURSIVE RStrip(_)
RStrip(s) ==
    IF Len(s) > 0 /\ s[Len(s)] \in Space THEN RStrip(SubSeq(s, 1, Len(s) - 1)) ELSE s

\* str.strip()
Strip(s) == RStrip(LStrip(s))

\* " ".join(s.split()): runs of whitespace become one blank, the ends are stripped
RECURSIVE JoinSplitFrom(_, _, _)
JoinSplitFrom(s, i, acc) ==
    IF i > Len(s) THEN acc
    ELSE IF s[i] \in Space
         THEN JoinSplitFrom(s, i + 1, acc)
         ELSE JoinSplitFrom(s, i + 1,
                  IF Len(acc) > 0 /\ s[i - 1] \in Space
                  THEN acc \o <<" ", s[i]>> ELSE Append(acc, s[i]))

JoinSplit(s) == JoinSplitFrom(s, 1, <<>>)

\* "".join(s.split()): all whitespace removed
NoSpace(s) == SelectSeq(s, LAMBDA c : c \notin Space)

\* sub in s
Contains(s, sub) ==
    \E i \in 1..(Len(s) - Len(sub) + 1) : SubSeq(s, i, i + Len(sub) - 1) = sub

\* str.lower() and str.upper() on the letters of the model's alphabet
UpperSeq == LatUpperSeq \o CyrUpperSeq \o OldUpperSeq
LowerSeq == LatLowerSeq \o CyrLowerSeq \o OldLowerSeq

LowerChar(c) ==
    IF \E i \in DOMAIN UpperSeq : UpperSeq[i] = c
    THEN LowerSeq[CHOOSE i \in DOMAIN UpperSeq : UpperSeq[i] = c] ELSE c

UpperChar(c) ==
    IF \E i \in DOMAIN LowerSeq : LowerSeq[i] = c
    THEN UpperSeq[CHOOSE i \in DOMAIN LowerSeq : LowerSeq[i] = c] ELSE c

Lower(s) == [i \in DOMAIN s |-> LowerChar(s[i])]
Upper(s) == [i \in DOMAIN s |-> UpperChar(s[i])]

\* str.isdigit(): non-empty and all digits
IsDigit(s) == Len(s) > 0 /\ \A i \in DOMAIN s : s[i] \in Digit

\* str.replace(old, new) for one-character old and new
ReplaceChar(s, old, new) == [i \in DOMAIN s |-> IF s[i] = old THEN new ELSE s[i]]

(***************************************************************************)
(* Regular expressions: Python's re on the patterns of the service.  A    *)
(* pattern node yields its matches from a position as a sequence in       *)
(* Python's order of preference (alternatives in order, greedy counts     *)
(* longest first, lazy counts shortest first); re takes the first match   *)
(* of the whole pattern at the leftmost position that has one.            *)
(***************************************************************************)
\* pattern nodes
In(S) == [t |-> "set", s |-> S]                      \* [...]
NotIn(S) == [t |-> "nset", s |-> S]                  \* [^...]
Lit(c) == In({c})
Cat(rs) == [t |-> "seq", rs |-> rs]
Alt(rs) == [t |-> "alt", rs |-> rs]
Grp(n, r) == [t |-> "grp", n |-> n, r |-> r]         \* the n-th (...)
Rep(r, min, max) == [t |-> "rep", r |-> r, min |-> min, max |-> max, lazy |-> FALSE]
RepLazy(r, min, max) == [t |-> "rep", r |-> r, min |-> min, max |-> max, lazy |-> TRUE]
Inf == -1
Star(r) == Rep(r, 0, Inf)
Plus(r) == Rep(r, 1, Inf)
Opt(r) == Rep(r, 0, 1)
PlusLazy(r) == RepLazy(r, 1, Inf)
Eos == [t |-> "eos"]                                 \* $ without re.MULTILINE
WordB == [t |-> "wb"]                                \* \b
\* a literal word, and a literal word under re.IGNORECASE
Word(s) == [t |-> "word", w |-> [i \in DOMAIN s |-> {s[i]}]]
WordI(s) == [t |-> "word", w |-> [i \in DOMAIN s |-> {LowerChar(s[i]), UpperChar(s[i])}]]
Ws == In(Space)                                      \* \s
D == In(Digit)                                       \* \d

MaxGroups == 5
NoGroups == [n \in 1..MaxGroups |-> <<0, 0>>]
Fail == [ok |-> FALSE, s |-> 0, e |-> 0, g |-> NoGroups]

IsWord(t, i) == i >= 1 /\ i <= Len(t) /\ t[i] \in WordChar

Least(S) == CHOOSE x \in S : \A y \in S : x <= y

\* whether the character class r takes the character c
Takes(r, c) == IF r.t = "set" THEN c \in r.s ELSE c \notin r.s

\* how many characters from position i on the class r takes in a row
RunLen(r, t, i) ==
    (CHOOSE j \in i..(Len(t) + 1) :
        /\ j = Len(t) + 1 \/ ~Takes(r, t[j])
        /\ \A k \in i..(j - 1) : Takes(r, t[k])) - i

\* the characters a match of node r can begin with: any says every character,
\* nul that the match may be empty
AnyFirst == [any |-> TRUE, nul |-> TRUE, s |-> {}]

\* f made to allow the empty match when nul holds
Nullable(f, nul) == [f EXCEPT !.nul = f.nul \/ nul]

\* the first characters of f or of rest; as alternatives the empty match of either
\* counts, in a row only that of rest
Either(f, rest, alternatives) ==
    [any |-> f.any \/ rest.any, nul |-> rest.nul \/ (alternatives /\ f.nul),
     s |-> f.s \cup rest.s]

RECURSIVE First(_), FirstCat(_, _, _), FirstThen(_, _, _, _), FirstAlt(_, _)
First(r) ==
    CASE r.t = "set" -> [any |-> FALSE, nul |-> FALSE, s |-> r.s]
      [] r.t = "nset" -> [any |-> TRUE, nul |-> FALSE, s |-> {}]
      [] r.t = "word" ->
           IF Len(r.w) = 0 THEN AnyFirst ELSE [any |-> FALSE, nul |-> FALSE, s |-> r.w[1]]
      [] r.t = "seq" -> FirstCat(r.rs, 1, Len(r.rs))
      [] r.t = "alt" -> FirstAlt(r.rs, 1)
      [] r.t = "grp" -> First(r.r)
      [] r.t = "rep" -> Nullable(First(r.r), r.min = 0)
      [] OTHER -> AnyFirst

FirstCat(rs, lo, hi) ==
    IF lo > hi THEN [any |-> FALSE, nul |-> TRUE, s |-> {}]
    ELSE FirstThen(First(rs[lo]), rs, lo, hi)

\* f, and when f may be empty what follows it as well
FirstThen(f, rs, lo, hi) ==
    IF ~f.nul THEN f ELSE Either(f, FirstCat(rs, lo + 1, hi), FALSE)

FirstAlt(rs, k) ==
    IF k > Len(rs) THEN [any |-> FALSE, nul |-> FALSE, s |-> {}]
    ELSE Either(First(rs[k]), FirstAlt(rs, k + 1), TRUE)

\* whether a match with the first characters f can begin at position i of t
CanStart(f, t, i) == f.nul \/ (i <= Len(t) /\ (f.any \/ t[i] \in f.s))

Here(i, g) == <<[e |-> i, g |-> g]>>

\* the matches of L that took a character
Advancing(L, i) == SelectSeq(L, LAMBDA m : m.e > i)

\* the matches that repeat once more and the one that stops, in the order of the
\* repeat r: a lazy one stops first
InOrder(r, more, stop) == IF r.lazy THEN stop \o more ELSE more \o stop

\* the matches of L after which a match with the first characters f can begin
Startable(L, f, t) == SelectSeq(L, LAMBDA m : CanStart(f, t, m.e))

\* the matches R of the body of group n, begun at position i, as matches of the group
InGroup(R, n, i) ==
    [k \in DOMAIN R |-> [e |-> R[k].e, g |-> [R[k].g EXCEPT ![n] = <<i, R[k].e>>]]]

\* the most repetitions of the repeat r a run of the given length allows
Most(r, run) == IF r.max = Inf \/ run < r.max THEN run ELSE r.max

\* one character class repeated: every count from r.min to hi, the greedy from the
\* highest down and the lazy from the lowest up
Counts(r, hi, i, g) ==
    IF hi < r.min THEN <<>>
    ELSE [k \in 1..(hi - r.min + 1) |->
            [e |-> i + (IF r.lazy THEN r.min + k - 1 ELSE hi - k + 1), g |-> g]]

RECURSIVE M(_, _, _, _), MCat(_, _, _, _, _, _), ThenAll(_, _, _, _, _),
          ThenCat(_, _, _, _, _, _, _), MAlt(_, _, _, _, _), MRep(_, _, _, _, _),
          MoreRep(_, _, _, _), ThenRep(_, _, _, _, _, _)

\* the matches of node r on t from position i, the groups so far being g
M(r, t, i, g) ==
    CASE r.t \in {"set", "nset"} ->
           IF i <= Len(t) /\ Takes(r, t[i]) THEN Here(i + 1, g) ELSE <<>>
      [] r.t = "word" ->
           IF i + Len(r.w) - 1 <= Len(t) /\ \A k \in DOMAIN r.w : t[i + k - 1] \in r.w[k]
           THEN Here(i + Len(r.w), g) ELSE <<>>
      [] r.t = "seq" -> MCat(r.rs, 1, Len(r.rs), t, i, g)
      [] r.t = "alt" -> MAlt(r.rs, 1, t, i, g)
      [] r.t = "grp" -> InGroup(M(r.r, t, i, g), r.n, i)
      [] r.t = "rep" ->
           IF r.r.t \in {"set", "nset"}
           THEN Counts(r, Most(r, RunLen(r.r, t, i)), i, g)
           ELSE MRep(r, 0, t, i, g)
      [] r.t = "eos" ->
           IF i = Len(t) + 1 \/ (i = Len(t) /\ t[i] = "\n") THEN Here(i, g) ELSE <<>>
      [] r.t = "wb" -> IF IsWord(t, i - 1) # IsWord(t, i) THEN Here(i, g) ELSE <<>>

\* rs[lo], ..., rs[hi] one after the other; a match of the first half is followed
\* up only where the second half can begin
MCat(rs, lo, hi, t, i, g) ==
    IF lo > hi THEN Here(i, g)
    ELSE IF lo = hi THEN M(rs[lo], t, i, g)
    ELSE ThenAll(Startable(MCat(rs, lo, (lo + hi) \div 2, t, i, g),
                           FirstCat(rs, (lo + hi) \div 2 + 1, hi), t),
                 rs, (lo + hi) \div 2 + 1, hi, t)

\* rs[lo], ..., rs[hi] after each of the matches L
ThenAll(L, rs, lo, hi, t) == ThenCat(L, 1, Len(L), rs, lo, hi, t)

\* rs[lo], ..., rs[hi] after each of the matches L[a], ..., L[b]
ThenCat(L, a, b, rs, lo, hi, t) ==
    IF a > b THEN <<>>
    ELSE IF a = b THEN MCat(rs, lo, hi, t, L[a].e, L[a].g)
    ELSE ThenCat(L, a, (a + b) \div 2, rs, lo, hi, t)
         \o ThenCat(L, (a + b) \div 2 + 1, b, rs, lo, hi, t)

\* the alternatives rs[k], rs[k+1], ... in this order
MAlt(rs, k, t, i, g) ==
    IF k > Len(rs) THEN <<>> ELSE M(rs[k], t, i, g) \o MAlt(rs, k + 1, t, i, g)

\* r.r repeated, n repetitions done
MRep(r, n, t, i, g) ==
    InOrder(r,
        IF r.max = Inf \/ n < r.max
        THEN MoreRep(Advancing(M(r.r, t, i, g), i), r, n + 1, t) ELSE <<>>,
        IF n >= r.min THEN Here(i, g) ELSE <<>>)

\* one more repetition after each of the matches L of the body
MoreRep(L, r, n, t) == ThenRep(L, 1, Len(L), r, n, t)

ThenRep(L, a, b, r, n, t) ==
    IF a > b THEN <<>>
    ELSE IF a = b THEN MRep(r, n, t, L[a].e, L[a].g)
    ELSE ThenRep(L, a, (a + b) \div 2, r, n, t) \o ThenRep(L, (a + b) \div 2 + 1, b, r, n, t)

\* the first of the matches R found from position i, in the order of preference
FirstOf(R, i) ==
    IF Len(R) = 0 THEN Fail ELSE [ok |-> TRUE, s |-> i, e |-> R[1].e, g |-> R[1].g]

\* the match re takes from position i
MatchAt(r, t, i) == FirstOf(M(r, t, i, NoGroups), i)

\* re.match(r, t)
Match(r, t) == MatchAt(r, t, 1)

\* the positions of t where a match of r begins, f being First(r)
Starts(r, t, f) ==
    {i \in 1..(Len(t) + 1) : CanStart(f, t, i) /\ Len(M(r, t, i, NoGroups)) > 0}

MatchAtLeast(r, t, starts) ==
    IF starts = {} THEN Fail ELSE MatchAt(r, t, Least(starts))

\* re.search(r, t): the match at the leftmost position that has one
Search(r, t) == MatchAtLeast(r, t, Starts(r, t, First(r)))

\* m.group(0), m.group(n) and whether group n took part in the match
Group0(m, t) == SubSeq(t, m.s, m.e - 1)
HasGroup(m, n) == m.g[n] # <<0, 0>>
Group(m, t, n) == SubSeq(t, m.g[n][1], m.g[n][2] - 1)

\* the text before the match m, all of it without a match
Before(m, t) == IF m.ok THEN SubSeq(t, 1, m.s - 1) ELSE t

\* re.split(r, t)[0]
SplitFirst(r, t) == Before(Search(r, t), t)

\* the text after the match m, all of it without a match
After(m, t) == IF m.ok THEN SubSeq(t, m.e, Len(t)) ELSE t

\* re.sub(r, "", t) for a pattern anchored at the start of t
SubAtStart(r, t) == After(Match(r, t), t)

\* re.sub(r'[^...]', '', t): the characters of the class S kept
Keep(S, t) == SelectSeq(t, LAMBDA c : c \in S)

(***************************************************************************)
(* Regex extraction (deterministic hints), llm-service/app.py              *)
(***************************************************************************)
\* the sentinel "unknown"
Unknown == <<"u", "n", "k", "n", "o", "w", "n">>

DigitSeq == <<"0", "1", "2", "3", "4", "5", "6", "7", "8", "9">>
DigitVal(c) == (CHOOSE i \in DOMAIN DigitSeq : DigitSeq[i] = c) - 1

\* int(s) for a string of digits
RECURSIVE ToInt(_)
ToInt(s) == IF Len(s) = 0 THEN 0 ELSE 10 * ToInt(SubSeq(s, 1, Len(s) - 1)) + DigitVal(s[Len(s)])

\* str.split(",") : the parts between the commas
RECURSIVE SplitComma(_, _, _)
SplitComma(s, i, cur) ==
    IF i > Len(s) THEN <<cur>>
    ELSE IF s[i] = "," THEN <<cur>> \o SplitComma(s, i + 1, <<>>)
         ELSE SplitComma(s, i + 1, Append(cur, s[i]))

\* f"{parts[0].strip()} {parts[1].strip()}"
FirstTwo(parts) == Strip(parts[1]) \o <<" ">> \o Strip(parts[2])

normalize_author(author) ==
    IF "," \in Range(author) THEN FirstTwo(SplitComma(author, 1, <<>>)) ELSE author

\* [A-Z][a-z]+(?:,?\s+[A-Z][a-z.]+)*
EngName ==
    Cat(<<In(LatUpper), Plus(In(LatLower)),
          Star(Cat(<<Opt(Lit(",")), Plus(Ws), In(LatUpper),
                     Plus(In(LatLower \cup {"."}))>>))>>)

\* \s*(?:[A-Z][a-z]+)\s*:\s*([A-Z][a-zA-Z\s&]+?),\s*(\d{4})
EngImprint ==
    Cat(<<Star(Ws), In(LatUpper), Plus(In(LatLower)), Star(Ws), Lit(":"), Star(Ws),
          Grp(3, Cat(<<In(LatUpper),
                       PlusLazy(In(LatLower \cup LatUpper \cup Space \cup {"&"}))>>)),
          Lit(","), Star(Ws), Grp(4, Rep(D, 4, 4))>>)

\* Author, Title. Place: Publisher, Year.
EngAuthorFirst ==
    Cat(<<Grp(1, EngName), In({".", ","}), Plus(Ws),
          Grp(2, Cat(<<In(LatUpper), PlusLazy(NotIn({".", ":"}))>>)), Lit("."),
          EngImprint>>)

\* Title / Author. - Place : Publisher, Year.
EngTitleFirst ==
    Cat(<<Grp(1, Cat(<<In(LatUpper), PlusLazy(NotIn({"/"}))>>)), Star(Ws), Lit("/"),
          Star(Ws), Grp(2, EngName), Lit("."), Star(Ws), In({"-", "EMDASH"}),
          EngImprint>>)

NoEntry == [ok |-> FALSE, hasAuthor |-> FALSE, author |-> <<>>, title |-> <<>>,
            publisher |-> <<>>, year |-> 0]

EngEntry(m, ocr) ==
    IF "/" \notin Range(Group0(m, ocr))
    THEN [ok |-> TRUE, hasAuthor |-> TRUE, author |-> Strip(Group(m, ocr, 1)),
          title |-> Strip(Group(m, ocr, 2)), publisher |-> Strip(Group(m, ocr, 3)),
          year |-> ToInt(Group(m, ocr, 4))]
    ELSE [ok |-> TRUE, hasAuthor |-> TRUE, author |-> Strip(Group(m, ocr, 2)),
          title |-> Strip(Group(m, ocr, 1)), publisher |-> Strip(Group(m, ocr, 3)),
          year |-> ToInt(Group(m, ocr, 4))]

\* the entry of the first of the two patterns that matched
FirstEngEntry(m1, m2, ocr) ==
    IF m1.ok THEN EngEntry(m1, ocr)
    ELSE IF m2.ok THEN EngEntry(m2, ocr) ELSE NoEntry

extract_english_bibliographic_entry(ocr) ==
    FirstEngEntry(Search(EngAuthorFirst, ocr), Search(EngTitleFirst, ocr), ocr)

\* [XXX] [Author]. -- [Title]. -- [Place] : [Publisher], [Year]
GostPattern ==
    Cat(<<In(CyrUpper \cup LatUpper), Plus(D), Plus(Ws),
          Opt(Cat(<<Grp(1, Cat(<<In(CyrUpper), Plus(In(CyrLower)),
                                 Star(Cat(<<Opt(Lit(",")), Plus(Ws), In(CyrUpper),
                                            Plus(In(CyrLower \cup {"."}))>>))>>)),
                    Star(Ws), Plus(In({".", "EMDASH"})), Star(Ws)>>)),
          Grp(2, Cat(<<In(CyrUpper), PlusLazy(NotIn({".", "EMDASH"}))>>)),
          Lit("."), Star(Ws), Lit("EMDASH"), Star(Ws),
          Grp(3, Cat(<<In(CyrUpper), Plus(In(CyrLower))>>)),
          Star(Ws), Lit(":"), Star(Ws),
          Grp(4, Cat(<<In(CyrUpper), PlusLazy(In(CyrLower \cup CyrUpper \cup Space))>>)),
          Lit(","), Star(Ws), Grp(5, Rep(D, 4, 4))>>)

\* \s*[:/]\s*
ColonOrSlash == Cat(<<Star(Ws), In({":", "/"}), Star(Ws)>>)

\* the entry of a match m of the GOST pattern
GostEntry(m, ocr) ==
    IF ~m.ok THEN NoEntry
    ELSE [ok |-> TRUE,
          hasAuthor |-> HasGroup(m, 1) /\ Len(Strip(Group(m, ocr, 1))) > 0,
          author |-> IF HasGroup(m, 1)
                     THEN normalize_author(Strip(Group(m, ocr, 1))) ELSE <<>>,
          title |-> Strip(SplitFirst(ColonOrSlash, Strip(Group(m, ocr, 2)))),
          publisher |-> Strip(Group(m, ocr, 4)),
          year |-> ToInt(Group(m, ocr, 5))]

extract_bibliographic_entry(ocr) == GostEntry(Search(GostPattern, ocr), ocr)

\* Surname I. O. : [А-ЯЁ][а-яё]+\s+[А-ЯЁA-Z]\.\s?[А-ЯЁA-Z]\.
Initials ==
    Cat(<<In(CyrUpper), Plus(In(CyrLower)), Plus(Ws), In(CyrUpper \cup LatUpper),
          Lit("."), Opt(Ws), In(CyrUpper \cup LatUpper), Lit(".")>>)

AuthorPatterns ==
    << \* author directly before the catalog code
       Cat(<<Grp(1, Initials), Star(Ws), Plus(Ws), In(CyrUpper \cup LatUpper),
             Plus(In(Digit \cup {"-"})), Ws>>),
       Initials,
       \* Surname, Name [Patronymic]
       Cat(<<In(CyrUpper), Plus(In(CyrLower)), Lit(","), Plus(Ws), In(CyrUpper),
             Plus(In(CyrLower)),
             Opt(Cat(<<Plus(Ws), In(CyrUpper), Plus(In(CyrLower))>>))>>),
       \* copyright line
       Cat(<<Lit("COPY"), Plus(Ws), Grp(1, Initials)>>) >>

\* m.group(1) if m.groups() else m.group(0)
GroupOrAll(m, ocr) == IF HasGroup(m, 1) THEN Group(m, ocr, 1) ELSE Group0(m, ocr)

RECURSIVE AuthorByPattern(_, _), AuthorOrNext(_, _, _)
\* the author by the first of the patterns k, k+1, ... that matches
AuthorByPattern(ocr, k) ==
    IF k > Len(AuthorPatterns) THEN Unknown
    ELSE AuthorOrNext(Search(AuthorPatterns[k], ocr), ocr, k)

AuthorOrNext(m, ocr, k) ==
    IF m.ok
    THEN normalize_author(Strip(SelectSeq(GroupOrAll(m, ocr), LAMBDA c : c # "COPY")))
    ELSE AuthorByPattern(ocr, k + 1)

extract_author_from(eng_biblio, biblio, ocr) ==
    IF eng_biblio.ok /\ Len(eng_biblio.author) > 0 THEN eng_biblio.author
    ELSE IF biblio.ok /\ biblio.hasAuthor /\ Len(biblio.author) > 0 THEN biblio.author
    ELSE AuthorByPattern(ocr, 1)

extract_author(ocr) ==
    extract_author_from(extract_english_bibliographic_entry(ocr),
        extract_bibliographic_entry(ocr), ocr)

IsbnChars == Digit \cup {"X", "x", "-", "ENDASH", "EMDASH", "MINUS"} \cup Space

\* ISBN\s*[:]? ?([0-9Xx\-...\s]+?)(?:\s*[\(;,]|$) under re.IGNORECASE
IsbnPattern ==
    Cat(<<WordI(<<"I", "S", "B", "N">>), Star(Ws), Opt(Lit(":")), Opt(Lit(" ")),
          Grp(1, PlusLazy(In(IsbnChars))),
          Alt(<<Cat(<<Star(Ws), In({"(", ";", ","})>>), Eos>>)>>)

\* 10 characters (digits, X allowed last) or 13 digits
ValidIsbn(raw) ==
    IF Len(raw) = 10
    THEN (raw[10] = "X" /\ IsDigit(SubSeq(raw, 1, 9))) \/ IsDigit(raw)
    ELSE Len(raw) = 13 /\ IsDigit(raw)

\* re.sub(r'[^0-9Xx]', '', m.group(1)).upper()
RawIsbn(m, ocr) == Upper(Keep(Digit \cup {"X", "x"}, Group(m, ocr, 1)))

ValidOrUnknown(raw) == IF ValidIsbn(raw) THEN raw ELSE Unknown

IsbnOf(m, ocr) == IF ~m.ok THEN Unknown ELSE ValidOrUnknown(RawIsbn(m, ocr))

extract_isbn(ocr) == IsbnOf(Search(IsbnPattern, ocr), ocr)

UdkPattern ==
    Cat(<<Word(<<"RU_U", "RU_DE", "RU_KA">>), Star(Ws), Opt(In({":", "."})), Star(Ws),
          Grp(1, Plus(In(Digit \cup Space
                         \cup {".", ":", "(", ")", "+", "=", "/", "-"})))>>)

UdkOf(m, ocr) == IF m.ok THEN JoinSplit(Strip(Group(m, ocr, 1))) ELSE Unknown

extract_udk(ocr) == UdkOf(Search(UdkPattern, ocr), ocr)

BbkPattern ==
    Cat(<<Word(<<"RU_BE", "RU_BE", "RU_KA">>), Star(Ws), Opt(In({":", "."})), Star(Ws),
          Grp(1, Cat(<<In(CyrUpper \cup CyrLower \cup LatUpper \cup LatLower \cup Digit),
                       Plus(In(Digit \cup CyrUpper \cup CyrLower \cup LatUpper
                               \cup LatLower \cup Space
                               \cup {"(", ")", "=", ":", ",", ".", "-", "ENDASH"}))>>))>>)

\* \n|(?:\s{2,})
LineOrGap == Alt(<<Lit("\n"), Rep(Ws, 2, Inf)>>)

BbkOf(m, ocr) == IF m.ok THEN SplitFirst(LineOrGap, Strip(Group(m, ocr, 1))) ELSE Unknown

extract_bbk(ocr) == BbkOf(Search(BbkPattern, ocr), ocr)

\* [А-ЯЁ]\d+\s+([А-ЯЁ][^.—]+?)\.?\s*[—\-]
CatalogTitle ==
    Cat(<<In(CyrUpper), Plus(D), Plus(Ws),
          Grp(1, Cat(<<In(CyrUpper), PlusLazy(NotIn({".", "EMDASH"}))>>)),
          Opt(Lit(".")), Star(Ws), In({"EMDASH", "-"})>>)

\* \s*:\s*
Colon == Cat(<<Star(Ws), Lit(":"), Star(Ws)>>)

TitleOf(m, ocr) == IF m.ok THEN SplitFirst(Colon, Strip(Group(m, ocr, 1))) ELSE Unknown

extract_title_from(eng_biblio, biblio, ocr) ==
    IF eng_biblio.ok THEN eng_biblio.title
    ELSE IF biblio.ok THEN biblio.title
    ELSE TitleOf(Search(CatalogTitle, ocr), ocr)

extract_title(ocr) ==
    extract_title_from(extract_english_bibliographic_entry(ocr),
        extract_bibliographic_entry(ocr), ocr)

Moskva == <<"RU_EM", "ru_o", "ru_es", "ru_ka", "ru_ve", "ru_a">>
SPb == <<"RU_ES", "RU_PE", "ru_be">>
Izdatelstvo ==
    <<"ru_i", "ru_ze", "ru_de", "ru_a", "ru_te", "ru_ie", "ru_el", "ru_soft_sign",
      "ru_es", "ru_te", "ru_ve", "ru_o">>

PublisherPatterns ==
    << Cat(<<Word(Moskva), Star(Ws), Lit(":"), Star(Ws),
             Grp(1, Cat(<<In(CyrUpper), PlusLazy(In(CyrLower \cup CyrUpper \cup Space))>>)),
             Lit(","), Star(Ws), Rep(D, 4, 4)>>),
       Cat(<<Word(Upper(Izdatelstvo)), Star(Ws), Opt(Lit("\n")), Star(Ws),
             Grp(1, Cat(<<In(CyrUpper), Plus(In(CyrUpper \cup CyrLower \cup Space))>>))>>) >>

RECURSIVE PublisherByPattern(_, _), PublisherOrNext(_, _, _)
\* the publisher by the first of the patterns k, k+1, ... that matches
PublisherByPattern(ocr, k) ==
    IF k > Len(PublisherPatterns) THEN Unknown
    ELSE PublisherOrNext(Search(PublisherPatterns[k], ocr), ocr, k)

PublisherOrNext(m, ocr, k) ==
    IF m.ok THEN Strip(Group(m, ocr, 1)) ELSE PublisherByPattern(ocr, k + 1)

extract_publisher_from(eng_biblio, biblio, ocr) ==
    IF eng_biblio.ok THEN eng_biblio.publisher
    ELSE IF biblio.ok THEN biblio.publisher
    ELSE PublisherByPattern(ocr, 1)

extract_publisher(ocr) ==
    extract_publisher_from(extract_english_bibliographic_entry(ocr),
        extract_bibliographic_entry(ocr), ocr)

\* (?:Москва|СПб|издательство)[^,]*,\s*(\d{4}) under re.IGNORECASE
YearPattern ==
    Cat(<<Alt(<<WordI(Moskva), WordI(SPb), WordI(Izdatelstvo)>>), Star(NotIn({","})),
          Lit(","), Star(Ws), Grp(1, Rep(D, 4, 4))>>)

YearOf(m, ocr) == IF m.ok THEN ToInt(Group(m, ocr, 1)) ELSE 0

extract_year_from(eng_biblio, biblio, ocr) ==
    IF eng_biblio.ok THEN eng_biblio.year
    ELSE IF biblio.ok THEN biblio.year
    ELSE YearOf(Search(YearPattern, ocr), ocr)

extract_year(ocr) ==
    extract_year_from(extract_english_bibliographic_entry(ocr),
        extract_bibliographic_entry(ocr), ocr)

(***************************************************************************)
(* The earlier extractor of llm-service/ocr.py (the one test_app.py tests) *)
(***************************************************************************)
\* ISBN(?:-1[03])?\s*[:]?\s*([0-9Xx\-...\s]+) under re.IGNORECASE
OcrIsbnPattern ==
    Cat(<<WordI(<<"I", "S", "B", "N">>), Opt(Cat(<<Lit("-"), Lit("1"), In({"0", "3"})>>)),
          Star(Ws), Opt(Lit(":")), Star(Ws), Grp(1, Plus(In(IsbnChars)))>>)

\* the 10- or 13-character candidate accepted, else the sentinel
OcrValidOrUnknown(raw) ==
    IF Len(raw) = 10 /\ (IsDigit(SubSeq(raw, 1, 9)) \/ IsDigit(raw)) THEN raw
    ELSE IF Len(raw) = 13 /\ IsDigit(raw) THEN raw
    ELSE Unknown

OcrIsbnOf(m, ocr) == IF ~m.ok THEN Unknown ELSE OcrValidOrUnknown(RawIsbn(m, ocr))

ocr_extract_isbn(ocr) == OcrIsbnOf(Search(OcrIsbnPattern, ocr), ocr)

(***************************************************************************)
(* Values of the model's JSON and of the Python dicts built from it        *)
(***************************************************************************)
PyStr(s) == [k |-> "str", s |-> s, n |-> 0]
PyInt(n) == [k |-> "int", s |-> <<>>, n |-> n]
PyFloat(n) == [k |-> "float", s |-> <<>>, n |-> n]        \* n + 0.5
PyTrue == [k |-> "bool", s |-> <<>>, n |-> 1]
PyNone == [k |-> "null", s |-> <<>>, n |-> 0]
Missing == [k |-> "missing", s |-> <<>>, n |-> 0]     \* the key is not in the dict

IsStr(v) == v.k = "str"
\* bool(v); for a key that is missing, bool(data.get(key))
Truthy(v) ==
    CASE v.k = "str" -> Len(v.s) > 0
      [] v.k \in {"int", "bool"} -> v.n # 0
      [] v.k = "float" -> TRUE
      [] OTHER -> FALSE
\* isinstance(v, int): bool is a subclass of int
IsInstanceInt(v) == v.k \in {"int", "bool"}

Fields == {"title", "author", "publisher", "year", "isbn", "udk", "bbk", "annotation"}
StrFields == Fields \ {"year"}

\* the outcome of a function that may raise
Ok(data) == [exc |-> FALSE, data |-> data]
Raised(data) == [exc |-> TRUE, data |-> data]

(***************************************************************************)
(* Normalization, llm-service/app.py                                       *)
(***************************************************************************)
garbage_keywords ==
    { <<"c", "o", "p", "y", "r", "i", "g", "h", "t">>,
      <<"t", "r", "a", "d", "e", "m", "a", "r", "k">>,
      <<"r", "e", "s", "e", "r", "v", "e", "d">>,
      <<"i", "n", "d", "i", "c", "i", "a">>,
      <<"r", "i", "g", "h", "t", "s", " ", "r", "e", "s", "e", "r", "v", "e", "d">> }

\* the keywords looked for in the title as written
C8_CaseSensitive(title) == \E keyword \in garbage_keywords : Contains(title, keyword)

IsGarbage(title) == \E keyword \in garbage_keywords : Contains(Lower(title), keyword)

\* ^[А-ЯЁA-Z][\s\-]*\d+\s+
CatalogCode ==
    Cat(<<In(CyrUpper \cup LatUpper), Star(In(Space \cup {"-"})), Plus(D), Plus(Ws)>>)
\* \s*/\s*
Slash == Cat(<<Star(Ws), Lit("/"), Star(Ws)>>)
\* \.\s*—\s*
DotDash == Cat(<<Lit("."), Star(Ws), Lit("EMDASH"), Star(Ws)>>)

\* the title cleaned of catalog code, authorship, imprint and subtitle
CleanTitle(title) ==
    Strip(SplitFirst(Colon, SplitFirst(DotDash, SplitFirst(Slash,
        SubAtStart(CatalogCode, title)))))

\* ^([А-ЯЁ][а-яё]+),\s*([А-ЯЁ][а-яё]+)\.\s*[—-]\s*(.+)
EmbeddedAuthor ==
    Cat(<<Grp(1, Cat(<<In(CyrUpper), Plus(In(CyrLower))>>)), Lit(","), Star(Ws),
          Grp(2, Cat(<<In(CyrUpper), Plus(In(CyrLower))>>)), Lit("."), Star(Ws),
          In({"EMDASH", "-"}), Star(Ws), Grp(3, Plus(NotIn({"\n"})))>>)

\* lines 498-503: a title with a garbage keyword becomes the sentinel
RejectGarbage(data) ==
    IF Truthy(data.title) /\ IsGarbage(data.title.s)
    THEN [data EXCEPT !.title = PyStr(Unknown)] ELSE data

\* lines 505-519: a title other than the sentinel is cleaned
CleanedTitle(data) ==
    IF Truthy(data.title) /\ data.title.s # Unknown
    THEN [data EXCEPT !.title = PyStr(CleanTitle(data.title.s))] ELSE data

\* lines 525-530: author and title taken from the match m of the embedded-author
\* pattern on the title t
SplitEmbedded(data, t, m) ==
    IF m.ok
    THEN [data EXCEPT !.author = PyStr(Group(m, t, 1) \o <<" ">> \o Group(m, t, 2)),
                      !.title = PyStr(Strip(Group(m, t, 3)))]
    ELSE data

\* lines 521-530: data.get("title", "") matched against the embedded-author pattern
EmbeddedSplit(data) ==
    IF data.title.k \notin {"missing", "str"}
    THEN Raised(data)                                  \* re.match on a non-string
    ELSE Ok(SplitEmbedded(data, data.title.s, Match(EmbeddedAuthor, data.title.s)))

normalize_author_title(data) ==
    IF Truthy(data.title) /\ ~IsStr(data.title)
    THEN Raised(data)                                  \* .lower() of a non-string
    ELSE EmbeddedSplit(CleanedTitle(RejectGarbage(data)))

normalize_strings(data) ==
    [f \in DOMAIN data |-> IF IsStr(data[f]) THEN PyStr(JoinSplit(data[f].s)) ELSE data[f]]

\* re.sub(c + r'\b', '', text): c removed wherever a word ends after it
RECURSIVE DropAtWordEnd(_, _, _, _)
DropAtWordEnd(c, text, lo, hi) ==
    IF lo > hi THEN <<>>
    ELSE IF lo = hi
         THEN IF text[lo] = c /\ ~IsWord(text, lo + 1) THEN <<>> ELSE <<text[lo]>>
         ELSE DropAtWordEnd(c, text, lo, (lo + hi) \div 2)
              \o DropAtWordEnd(c, text, (lo + hi) \div 2 + 1, hi)

OldLetter(c) ==
    CASE c = "RU_YAT" -> "RU_IE" [] c = "ru_yat" -> "ru_ie"
      [] c = "RU_I_DECIMAL" -> "RU_I" [] c = "ru_i_decimal" -> "ru_i"
      [] c = "RU_IZHITSA" -> "RU_I" [] c = "ru_izhitsa" -> "ru_i"
      [] c = "RU_FITA" -> "RU_EF" [] c = "ru_fita" -> "ru_ef"
      [] OTHER -> c

\* re.sub(c + r'\b', '', text)
DropFinal(c, text) == DropAtWordEnd(c, text, 1, Len(text))

normalize_old_cyrillic(text) ==
    IF Len(text) = 0 THEN text
    ELSE DropFinal("ru_hard_sign",
             DropFinal("RU_HARD_SIGN", [i \in DOMAIN text |-> OldLetter(text[i])]))

OldCyrillicKeys == {"title", "author", "publisher"}

\* key in data and data[key] and data[key] != "unknown"
Touched(data, f) == f \in OldCyrillicKeys /\ Truthy(data[f]) /\ data[f] # PyStr(Unknown)

normalize_old_cyrillic_data(data) ==
    IF \E f \in OldCyrillicKeys : Touched(data, f) /\ ~IsStr(data[f])
    THEN Raised(data)                                  \* .replace() of a non-string
    ELSE Ok([f \in DOMAIN data |->
               IF Touched(data, f) THEN PyStr(normalize_old_cyrillic(data[f].s))
               ELSE data[f]])

SentenceEnd == {".", "!", "?"}

\* the k-th smallest element of a set of numbers
Kth(S, k) == CHOOSE x \in S : Cardinality({y \in S : y < x}) = k - 1

RECURSIVE JoinBlank(_)
JoinBlank(parts) ==
    IF Len(parts) = 0 THEN <<>>
    ELSE IF Len(parts) = 1 THEN parts[1]
    ELSE parts[1] \o <<" ">> \o JoinBlank(Tail(parts))

\* fragments[i].strip() + fragments[i+1]: the text from b up to the sentence end at e
Sentence(text, b, e) == Append(Strip(SubSeq(text, b, e - 1)), text[e])

\* the sentences of text, ends being the positions of its sentence ends; what
\* follows the last sentence end is dropped
SentencesAt(text, ends) ==
    [k \in 1..Cardinality(ends) |->
        Sentence(text, IF k = 1 THEN 1 ELSE Kth(ends, k - 1) + 1, Kth(ends, k))]

Sentences(text) == SentencesAt(text, {i \in DOMAIN text : text[i] \in SentenceEnd})

\* the sentences all[k], k in kept, joined with blanks
JoinKept(all, kept) == JoinBlank([k \in 1..Cardinality(kept) |-> all[Kth(kept, k)]])

\* each sentence kept where it first occurs
Deduplicated(all) ==
    JoinKept(all, {k \in DOMAIN all : \A j \in 1..(k - 1) : all[j] # all[k]})

\* clean_annotation for a string
CleanAnnotationText(text) == Deduplicated(Sentences(JoinSplit(text)))

clean_annotation(v) ==
    IF ~Truthy(v) THEN Ok(PyStr(Unknown))
    ELSE IF ~IsStr(v) THEN Raised(v)                   \* .split() of a non-string
    ELSE Ok(PyStr(CleanAnnotationText(v.s)))

normalize_classification(v) ==
    IF ~Truthy(v) THEN Ok(PyStr(Unknown))
    ELSE IF ~IsStr(v) THEN Raised(v)                   \* .lower() of a non-string
    ELSE IF Lower(v.s) = Unknown THEN Ok(PyStr(Unknown))
    ELSE Ok(PyStr(NoSpace(v.s)))

\* \s*[\(;,]
IsbnTail == Cat(<<Star(Ws), In({"(", ";", ","})>>)

\* the cleaned value kept whatever its length
C9_Unvalidated(clean_isbn, digits_only) == clean_isbn

\* lines 621-633: clean_isbn when its digits and X make a valid ISBN, else the
\* sentinel
Validated(clean_isbn, digits_only) ==
    IF Len(digits_only) = 10
    THEN IF IsDigit(digits_only)
            \/ (digits_only[10] = "X" /\ IsDigit(SubSeq(digits_only, 1, 9)))
         THEN clean_isbn ELSE Unknown
    ELSE IF Len(digits_only) = 13 /\ IsDigit(digits_only) THEN clean_isbn
    ELSE Unknown

\* re.sub(r'[^0-9Xx\-]', '', isbn).upper()
CleanIsbn(isbn) == Upper(Keep(Digit \cup {"X", "x", "-"}, isbn))

ValidatedClean(clean_isbn) ==
    Validated(clean_isbn, Upper(Keep(Digit \cup {"X", "x"}, clean_isbn)))

\* the ISBN branch of finalize for a string other than "unknown"
FinalIsbn(s) == ValidatedClean(CleanIsbn(Strip(SplitFirst(IsbnTail, s))))

\* the hint whenever there is one
C21_HintFirst(v, hint) == IF hint # Unknown THEN PyStr(hint) ELSE v

\* the value of isbn, udk or bbk after the fallback to its hint
OrHint(v, hint) == IF ~Truthy(v) \/ v = PyStr(Unknown) THEN PyStr(hint) ELSE v

\* lines 597-601: the sentinel for a falsy title, author, publisher or annotation,
\* 0 for a year that is no int
Defaulted(data) ==
    [f \in DOMAIN data |->
        IF f \in {"title", "author", "publisher", "annotation"} /\ ~Truthy(data[f])
        THEN PyStr(Unknown)
        ELSE IF f = "year" /\ ~IsInstanceInt(data[f]) THEN PyInt(0)
        ELSE data[f]]

\* lines 604-609
Hinted(data, isbn_hint, udk_hint, bbk_hint) ==
    [data EXCEPT !.isbn = OrHint(data.isbn, isbn_hint),
                 !.udk = OrHint(data.udk, udk_hint),
                 !.bbk = OrHint(data.bbk, bbk_hint)]

\* lines 612-636 given the outcomes of normalize_classification and clean_annotation
Finished(data, bbk, udk, annotation) ==
    IF bbk.exc \/ udk.exc THEN Raised(data)
    ELSE IF data.isbn # PyStr(Unknown) /\ ~IsStr(data.isbn)
         THEN Raised(data)                             \* re.split on a non-string
    ELSE IF annotation.exc THEN Raised(data)
    ELSE Ok([data EXCEPT !.bbk = bbk.data, !.udk = udk.data,
                         !.isbn = IF data.isbn = PyStr(Unknown) THEN data.isbn
                                  ELSE PyStr(FinalIsbn(data.isbn.s)),
                         !.annotation = annotation.data])

\* lines 612-636
Tidied(data) ==
    Finished(data, normalize_classification(data.bbk), normalize_classification(data.udk),
             clean_annotation(data.annotation))

finalize(data, isbn_hint, udk_hint, bbk_hint) ==
    Tidied(Hinted(Defaulted(data), isbn_hint, udk_hint, bbk_hint))

(***************************************************************************)
(* The inputs of a request: what recognition returns for each image and    *)
(* what the generative model answers to each completion call               *)
(***************************************************************************)
\* the most info pages a request of the model carries
MaxInfoPages == 1

\* the answer of the vision model to one request: down (an exception or a status
\* other than 200), or a text
VisionDown == [ok |-> FALSE, text |-> <<>>]
VisionText(text) == [ok |-> TRUE, text |-> text]

\* a scan: what recognition gives for one image: Tesseract's text in the request's
\* language (for a cover, the text ocr_image_rgb_channels settles on), Tesseract's
\* text in English, and the vision model's answer
Scan(rus, eng, vision) == [rus |-> rus, eng |-> eng, vision |-> vision]
NoScan == Scan(<<>>, <<>>, VisionDown)

\* a result of try_ocr: the text read from a channel, the name of the channel
\* variant, the length of the text; line 98: the best result before any channel
Result(text, name) == [text |-> text, name |-> name, len |-> Len(text)]
NoResult == Result(<<>>, "none")

\* "BATYI\nV. Yan" in Cyrillic
CoverText ==
    <<"RU_BE", "RU_A", "RU_TE", "RU_YERU", "RU_SHORT_I", "\n", "RU_VE", ".", " ", "RU_YA",
      "ru_en">>

\* a decorative cover nobody can read; one only the vision model reads; one Tesseract
\* reads
CoverScans ==
    { Scan(<<>>, <<>>, VisionDown),
      Scan(<<>>, <<>>, VisionText(CoverText)),
      Scan(CoverText, <<"B", "A", "T", "b", "I", "U">>, VisionText(<<" ">>)) }

\* a page read as blanks; a GOST catalog entry "K8 Yan, V. G. -- Batyi : roman. --
\* Moskva : Azbuka, 2020." with UDK and BBK lines, its English pass an ISBN line; a
\* legal page whose catalog-like line is "A1 Vse prava reserved -- M."
InfoScans ==
    { Scan(<<" ", "\n">>, <<>>, VisionDown),
      Scan(<<"RU_KA", "8", " ", "RU_YA", "ru_en", ",", " ", "RU_VE", ".", " ", "RU_GHE", ".",
           " ", "EMDASH", " ", "RU_BE", "ru_a", "ru_te", "ru_yeru", "ru_short_i", " ", ":",
           " ", "ru_er", "ru_o", "ru_em", "ru_a", "ru_en", ".", " ", "EMDASH", " ",
           "RU_EM", "ru_o", "ru_es", "ru_ka", "ru_ve", "ru_a", " ", ":", " ", "RU_A",
           "ru_ze", "ru_be", "ru_u", "ru_ka", "ru_a", ",", " ", "2", "0", "2", "0", ".",
           "\n", "RU_U", "RU_DE", "RU_KA", " ", "8", "2", "1", ".", "1", "6", "1", "\n",
           "RU_BE", "RU_BE", "RU_KA", " ", "8", "4", "(", "2", ")", "6">>,
           <<"I", "S", "B", "N", " ", "9", "7", "8", "-", "5", "-", "1", "7", "-", "1", "2",
           "3", "4", "5", "6", "-", "7">>, VisionText(<<"RU_KA", "8">>)),
      Scan(<<"RU_A", "1", " ", "RU_VE", "ru_es", "ru_ie", " ", "ru_pe", "ru_er", "ru_a",
           "ru_ve", "ru_a", " ", "r", "e", "s", "e", "r", "v", "e", "d", " ", "EMDASH",
           " ", "RU_EM", ".", "\n", "RU_U", "RU_DE", "RU_KA", " ">>,
           <<"A", "l", "l", " ", "r", "i", "g", "h", "t", "s", " ", "r", "e", "s", "e", "r",
           "v", "e", "d", "\n", "I", "S", "B", "N", " ", "1", "2", "3">>, VisionDown) }

\* a back cover with a repeated blurb sentence and an ISBN followed by "(pbk)"
BackScans ==
    { Scan(<<"RU_KA", "ru_en", "ru_i", "ru_ghe", "ru_a", " ", "ru_o", " ", "ru_ha", "ru_a",
           "ru_en", "ru_ie", ".", " ", "RU_KA", "ru_en", "ru_i", "ru_ghe", "ru_a", " ",
           "ru_o", " ", "ru_ha", "ru_a", "ru_en", "ru_ie", ".">>,
           <<"I", "S", "B", "N", " ", "0", "-", "3", "0", "6", "-", "4", "0", "6", "1", "5",
           "-", "X", " ", "(", "p", "b", "k", ")">>, VisionDown) }

CoverHeader == <<"=", "=", "=", " ", "C", "O", "V", "E", "R", " ", "=", "=", "=", "\n">>
InfoHeader == <<"=", "=", "=", " ", "I", "N", "F", "O", " ", "P", "A", "G", "E", " ">>
HeaderEnd == <<" ", "=", "=", "=", "\n">>
BackHeader == <<"=", "=", "=", " ", "B", "A", "C", "K", " ", "C", "O", "V", "E", "R", " ", "=", "=",
    "=", "\n">>

\* the ways a completion call ends: the HTTP call raises (no connection, timeout),
\* a non-2xx status, a text without {...}, a {...} that is no JSON, a JSON value
\* that is no object, or an object
FailureKinds == {"transport", "status", "no_json", "bad_json", "not_object"}
Failure(kind) == [kind |-> kind, data |-> [f \in Fields |-> Missing]]
Answer(data) == [kind |-> "ok", data |-> data]

\* the object of a well-behaved catalog answer
GoodData ==
    [title |-> PyStr(<<"RU_BE", "ru_a", "ru_te", "ru_yeru", "ru_short_i">>),
     author |-> PyStr(<<"RU_YA", "ru_en", " ", "RU_VE", "ru_a", "ru_es", "ru_i", "ru_el", "ru_i",
              "ru_short_i">>),
     publisher |-> PyStr(<<"RU_A", "ru_ze", "ru_be", "ru_u", "ru_ka", "ru_a">>),
     year |-> PyInt(2020),
     isbn |-> PyStr(<<"9", "7", "8", "-", "5", "-", "1", "7", "-", "1", "2", "3", "4", "5", "6",
              "-", "7">>),
     udk |-> PyStr(<<"8", "2", "1", ".", "1", "6", "1">>),
     bbk |-> PyStr(<<"8", "4", "(", "2", ")", "6">>),
     annotation |-> PyStr(<<"RU_O", " ", "ru_ha", "ru_a", "ru_en", "ru_ie", ".", " ", "RU_O", " ",
              "ru_ha", "ru_a", "ru_en", "ru_ie", ".", " ", "RU_ER", "ru_o", "ru_em",
              "ru_a", "ru_en", ".">>)]

\* titles a model may give: absent, null, empty, blank, a number, a clean title, legal
\* boilerplate, a raw catalog line, an embedded author ("Yan, Vasilii. - Batyi"),
\* pre-reform spelling with hard signs at word ends ("Batyi'.' -- M."), the sentinel
ModelTitles ==
    { Missing, PyNone, PyStr(<<>>), PyStr(<<" ">>), PyInt(5),
      PyStr(<<"RU_BE", "ru_a", "ru_te", "ru_yeru", "ru_short_i">>),
      PyStr(<<"A", "l", "l", " ", "R", "i", "g", "h", "t", "s", " ", "R", "e", "s", "e",
              "r", "v", "e", "d">>),
      PyStr(<<"RU_KA", "8", " ", "RU_BE", "ru_a", "ru_te", "ru_yeru", "ru_short_i", " ",
              ":", " ", "ru_er", "ru_o", "ru_em", "ru_a", "ru_en", " ", "/", " ", "RU_VE",
              ".", " ", "RU_YA", "ru_en", ".", " ", "EMDASH", " ", "RU_EM", ".">>),
      PyStr(<<"RU_YA", "ru_en", ",", " ", "RU_VE", "ru_a", "ru_es", "ru_i", "ru_el",
              "ru_i", "ru_short_i", ".", " ", "-", " ", "RU_BE", "ru_a", "ru_te",
              "ru_yeru", "ru_short_i">>),
      PyStr(<<"RU_BE", "ru_a", "ru_te", "ru_yeru", "ru_short_i", "ru_hard_sign", ".",
              "ru_hard_sign", " ", "EMDASH", " ", "RU_EM", ".">>),
      PyStr(Unknown) }

ModelAuthors ==
    { Missing, PyNone, PyStr(<<>>), PyInt(5), PyStr(Unknown),
      PyStr(<<"RU_YA", "ru_en", " ", "RU_VE", ".">>) }

ModelYears == { Missing, PyNone, PyInt(0), PyInt(1999), PyInt(-5), PyFloat(2020), PyTrue,
                PyStr(<<"2", "0", "2", "0">>) }

ModelIsbns ==
    { Missing, PyNone, PyInt(5), PyStr(Unknown), PyStr(<<"1", "2", "3">>),
      PyStr(<<"0", "-", "3", "0", "6", "-", "4", "0", "6", "1", "5", "-", "X", " ", "(",
              "p", "b", "k", ")">>),
      PyStr(<<"9", "7", "8", "5", "1", "7", "1", "2", "3", "4", "5", "6", "7">>),
      PyStr(<<"0", "3", "0", "6", "4", "0", "6", "1", "X", "2">>) }

ModelCodes ==
    { Missing, PyInt(5), PyStr(Unknown), PyStr(<<" ">>),
      PyStr(<<"8", "4", " ", "(", "2", ")", " ", "6">>) }

ModelPublishers == { Missing, PyNone, PyInt(5), PyStr(<<"RU_HARD_SIGN">>) }

ModelAnnotations ==
    { Missing, PyNone, PyInt(5), PyStr(Unknown),
      PyStr(<<"RU_BE", "ru_ie", "ru_ze", " ", "ru_te", "ru_o", "ru_che", "ru_ka", "ru_i">>),
      PyStr(<<"RU_DE", "ru_a", ".", " ", "RU_EN", "ru_ie", "ru_te", "!", " ", "RU_DE",
              "ru_a", ".", " ", "ru_i">>) }

\* the titles and authors an answer may pair: every title with no author and with
\* the good one, every author with the good title
ModelPairs ==
    {<<t, a>> : t \in ModelTitles, a \in {Missing, GoodData.author}}
    \cup {<<GoodData.title, a>> : a \in ModelAuthors}

\* the objects a catalog answer may carry: the good one with its title and author
\* varied together, each other field varied alone, and the empty object
CatalogObjects ==
    {[GoodData EXCEPT !.title = p[1], !.author = p[2]] : p \in ModelPairs}
    \cup {[GoodData EXCEPT !.year = y] : y \in ModelYears}
    \cup {[GoodData EXCEPT !.isbn = v] : v \in ModelIsbns}
    \cup {[GoodData EXCEPT !.udk = v] : v \in ModelCodes}
    \cup {[GoodData EXCEPT !.bbk = v] : v \in ModelCodes}
    \cup {[GoodData EXCEPT !.publisher = v] : v \in ModelPublishers}
    \cup {[GoodData EXCEPT !.annotation = v] : v \in ModelAnnotations}
    \cup {[f \in Fields |-> Missing]}

CatalogAnswers == {Failure(kind) : kind \in FailureKinds} \cup {Answer(d) : d \in CatalogObjects}

\* the objects a cover answer may carry
CoverObjects ==
    {[f \in Fields |-> IF f = "title" THEN p[1] ELSE IF f = "author" THEN p[2] ELSE Missing] :
        p \in ModelPairs}

CoverAnswers == {Failure(kind) : kind \in FailureKinds} \cup {Answer(d) : d \in CoverObjects}

(***************************************************************************)
(* Recognition, llm-service/app.py                                         *)
(***************************************************************************)
\* the text kept for an image: the vision model's when it answers with a longer
\* text (blanks at the ends not counted), else Tesseract's
ocr_with_vision_fallback(vision, tesseract_result) ==
    IF vision.ok /\ Len(Strip(vision.text)) > Len(Strip(tesseract_result))
    THEN vision.text
    ELSE tesseract_result

\* f"{i}" for a page number
Str(i) == <<DigitSeq[i + 1]>>

\* ocr_info after the info pages 1..n
RECURSIVE InfoText(_, _)
InfoText(pages, n) ==
    IF n = 0 THEN <<>>
    ELSE InfoText(pages, n - 1) \o InfoHeader \o Str(n) \o HeaderEnd
         \o ocr_with_vision_fallback(pages[n].vision, pages[n].rus) \o <<"\n">>

\* what the info pages 1..n add to ocr_eng
RECURSIVE InfoEng(_, _)
InfoEng(pages, n) ==
    IF n = 0 THEN <<>>
    ELSE InfoEng(pages, n - 1) \o InfoHeader \o Str(n) \o HeaderEnd \o pages[n].eng \o <<"\n">>

\* the recognition and vision calls of the info pages 1..n, in order
RECURSIVE InfoCalls(_)
InfoCalls(n) ==
    IF n = 0 THEN <<>> ELSE InfoCalls(n - 1) \o <<"ocr", "ocr", "vision">>

(***************************************************************************)
(* The two extraction paths, llm-service/app.py                            *)
(***************************************************************************)
\* dict.get(key, default) for a value read with Missing for an absent key
Get(v, default) == IF v = Missing THEN default ELSE v

\* the cover record; {} is the record with no key
NoCoverData == [title |-> Missing, author |-> Missing]
UnknownCover == [title |-> PyStr(Unknown), author |-> PyStr(Unknown)]

\* normalize_strings and normalize_old_cyrillic_data after normalize_author_title
\* returned, r being its outcome
ThenStrings(r) ==
    IF r.exc THEN r ELSE normalize_old_cyrillic_data(normalize_strings(r.data))

\* lines 703-705: the three normalizers of the cover path, one after the other
NormalizedCover(data) == ThenStrings(normalize_author_title(data))

\* lines 707-714: title and author of the normalized object, the sentinels after any
\* exception
CoverRecord(r) ==
    IF r.exc THEN UnknownCover
    ELSE [title |-> Get(r.data.title, PyStr(Unknown)),
          author |-> Get(r.data.author, PyStr(Unknown))]

extract_cover_metadata(answer) ==
    IF answer.kind # "ok" THEN UnknownCover ELSE CoverRecord(NormalizedCover(answer.data))

\* ocr_main + "\n" + ocr_eng if ocr_eng else ocr_main
CombinedText(ocr_main, eng) ==
    IF Len(eng) > 0 THEN ocr_main \o <<"\n">> \o eng ELSE ocr_main

\* the regex hints of a text
\* the seven hints, the two citation parsers having given eng_biblio and biblio
HintsWith(eng_biblio, biblio, ocr_text) ==
    [author |-> extract_author_from(eng_biblio, biblio, ocr_text),
     isbn |-> extract_isbn(ocr_text),
     udk |-> extract_udk(ocr_text),
     bbk |-> extract_bbk(ocr_text),
     title |-> extract_title_from(eng_biblio, biblio, ocr_text),
     publisher |-> extract_publisher_from(eng_biblio, biblio, ocr_text),
     year |-> extract_year_from(eng_biblio, biblio, ocr_text)]

HintBundle(ocr_text) ==
    HintsWith(extract_english_bibliographic_entry(ocr_text),
              extract_bibliographic_entry(ocr_text), ocr_text)

NoHints ==
    [author |-> Unknown, isbn |-> Unknown, udk |-> Unknown, bbk |-> Unknown,
     title |-> Unknown, publisher |-> Unknown, year |-> 0]

\* the four normalizers in the order both paths of extract_metadata_with_llm run them
\* finalize after the three normalizers returned, r being their outcome
ThenFinalize(r, h) == IF r.exc THEN r ELSE finalize(r.data, h.isbn, h.udk, h.bbk)

Normalized(data, h) == ThenFinalize(NormalizedCover(data), h)

\* the record the except branch starts from
HintRecord(h) ==
    [title |-> PyStr(h.title),
     author |-> PyStr(h.author),
     publisher |-> PyStr(h.publisher),
     year |-> PyInt(IF h.year > 0 THEN h.year ELSE 0),
     isbn |-> PyStr(h.isbn),
     udk |-> PyStr(h.udk),
     bbk |-> PyStr(h.bbk),
     annotation |-> PyStr(Unknown)]

\* the hint record taken as it is, without the normalizers
C3_Unnormalized(h) == Ok(HintRecord(h))

\* extract_metadata_with_llm once the hints are computed: the model's object
\* normalized, or on any exception of the try block the hint record normalized
\* lines 758-776: the except branch
Fallback(h) == Normalized(HintRecord(h), h)

\* tried when the try block returned, else the except branch
Recovered(tried, h) == IF tried.exc THEN Fallback(h) ELSE tried

CatalogRecord(h, answer) ==
    IF answer.kind = "ok" THEN Recovered(Normalized(answer.data, h), h) ELSE Fallback(h)

extract_metadata_with_llm(ocr_main, eng, answer) ==
    CatalogRecord(HintBundle(CombinedText(ocr_main, eng)), answer)

\* {} for info_data
NoInfoData == [f \in Fields |-> Missing]

(***************************************************************************)
(* The /extract endpoint, llm-service/app.py                               *)
(***************************************************************************)
\* the cover's value whenever the cover knows one
C6_CoverFirst(merged, cover_value) ==
    IF cover_value # PyStr(Unknown) THEN cover_value ELSE merged

\* lines 852-867: the catalog record's fields, title and author falling back to the
\* cover's
\* lines 864-867: the cover's value for a merged value that is the sentinel
OrCover(merged, cover_value) ==
    IF merged = PyStr(Unknown) /\ cover_value # PyStr(Unknown) THEN cover_value ELSE merged

Merge(info, cover) ==
    [title |-> OrCover(Get(info.title, Get(cover.title, PyStr(Unknown))),
                       Get(cover.title, PyStr(Unknown))),
     author |-> OrCover(Get(info.author, Get(cover.author, PyStr(Unknown))),
                        Get(cover.author, PyStr(Unknown))),
     publisher |-> Get(info.publisher, PyStr(Unknown)),
     year |-> Get(info.year, PyInt(0)),
     isbn |-> Get(info.isbn, PyStr(Unknown)),
     udk |-> Get(info.udk, PyStr(Unknown)),
     bbk |-> Get(info.bbk, PyStr(Unknown)),
     annotation |-> Get(info.annotation, PyStr(Unknown))]

\* f"=== COVER ===\n{ocr_cover}\n\n{ocr_info}"
RawOcr(cover, info) == CoverHeader \o cover \o <<"\n", "\n">> \o info

\* the author listed whatever it is
C7_AlwaysListed(author) == <<author>>

\* data["authors"]
Authors(author) == IF author # PyStr(Unknown) THEN <<author>> ELSE <<>>

\* BookMetadata(**data) accepts the record: the str fields hold strings, year an int
Valid(data) == (\A f \in StrFields : IsStr(data[f])) /\ IsInstanceInt(data.year)

NoResponse == [status |-> 0, detail |-> "", body |-> <<>>]

\* what the except clause of the endpoint makes of an exception raised in the try
\* block
OnException(detail) == [status |-> 500, detail |-> detail, body |-> <<>>]

\* the 200 response with the validated record
Record(data, raw_ocr) ==
    [status |-> 200, detail |-> "",
     body |-> [title |-> data.title.s, author |-> data.author.s,
               authors |-> [i \in DOMAIN Authors(data.author) |-> data.author.s],
               publisher |-> data.publisher.s, year |-> data.year.n,
               isbn |-> data.isbn.s, udk |-> data.udk.s, bbk |-> data.bbk.s,
               annotation |-> data.annotation.s, raw_ocr |-> raw_ocr]]

\* line 878 and lines 880-882: the record when BookMetadata accepts it, else the
\* validation error through the except clause
Validated200(data, raw_ocr) ==
    IF Valid(data) THEN Record(data, raw_ocr) ELSE OnException("validation")

\* no completion call made yet
NoAnswer == [kind |-> "none", data |-> NoInfoData]

Requests == [cover_image : BOOLEAN, info_images : 0..MaxInfoPages, back_image : BOOLEAN]

Completion(path, answer) == [call |-> "completion", path |-> path, outcome |-> answer.kind]

Init ==
    /\ pc = "recognize"
    /\ req \in Requests
    /\ ocr_cover = <<>>
    /\ ocr_info = <<>>
    /\ ocr_eng = <<>>
    /\ hints = NoHints
    /\ catalog_answer = NoAnswer
    /\ cover_data = NoCoverData
    /\ info_data = NoInfoData
    /\ response = NoResponse
    /\ calls = <<>>
    /\ serving = <<>>
    /\ best_result = NoResult
    /\ input = <<>>
    /\ output = <<>>

\* lines 819-840: every image recognized, in English and in the request's language
Recognize ==
    /\ pc = "recognize"
    /\ \E cover \in (IF req.cover_image THEN CoverScans ELSE {NoScan}),
          pages \in [1..req.info_images -> InfoScans],
          back \in (IF req.back_image THEN BackScans ELSE {NoScan}) :
          /\ ocr_cover' = (IF req.cover_image
                           THEN ocr_with_vision_fallback(cover.vision, cover.rus) ELSE <<>>)
          /\ ocr_info' = InfoText(pages, req.info_images)
                         \o (IF req.back_image THEN BackHeader \o back.rus \o <<"\n">>
                             ELSE <<>>)
          /\ ocr_eng' = (IF req.cover_image THEN CoverHeader \o cover.eng \o <<"\n">>
                         ELSE <<>>)
                        \o InfoEng(pages, req.info_images)
                        \o (IF req.back_image THEN BackHeader \o back.eng \o <<"\n">>
                            ELSE <<>>)
    /\ calls' = [i \in 1..(IF req.cover_image THEN 3 ELSE 0) |->
                    [call |-> <<"ocr", "ocr", "vision">>[i], path |-> "cover", outcome |-> ""]]
                \o [i \in 1..(3 * req.info_images) |->
                    [call |-> InfoCalls(req.info_images)[i], path |-> "info", outcome |-> ""]]
                \o [i \in 1..(IF req.back_image THEN 2 ELSE 0) |->
                    [call |-> "ocr", path |-> "back", outcome |-> ""]]
    /\ pc' = "check"
    /\ UNCHANGED <<req, hints, cover_data, info_data, response,
                 catalog_answer, input, output, serving, best_result>>

\* lines 842-843 and 880-882: without text the endpoint raises HTTPException(400)
\* inside its try block, and its except clause answers for it
NoText ==
    /\ pc = "check"
    /\ Len(Strip(ocr_cover)) = 0 /\ Len(Strip(ocr_info)) = 0
    /\ response' = OnException("400: No OCR text")
    /\ pc' = "done"
    /\ UNCHANGED <<req, ocr_cover, ocr_info, ocr_eng, hints, cover_data, info_data, calls,
                 catalog_answer, input, output, serving, best_result>>

\* line 846: the cover completion call, made when the cover has text
Cover ==
    /\ pc = "check"
    /\ ~(Len(Strip(ocr_cover)) = 0 /\ Len(Strip(ocr_info)) = 0)
    /\ Len(Strip(ocr_cover)) > 0
    /\ \E answer \in CoverAnswers :
          /\ cover_data' = extract_cover_metadata(answer)
          /\ calls' = Append(calls, Completion("cover", answer))
    /\ pc' = "hints"
    /\ UNCHANGED <<req, ocr_cover, ocr_info, ocr_eng, hints, info_data, response,
                 catalog_answer, input, output, serving, best_result>>

\* line 846: cover_data = {} when the cover has no text
SkipCover ==
    /\ pc = "check"
    /\ ~(Len(Strip(ocr_cover)) = 0 /\ Len(Strip(ocr_info)) = 0)
    /\ Len(Strip(ocr_cover)) = 0
    /\ cover_data' = NoCoverData
    /\ pc' = "hints"
    /\ UNCHANGED <<req, ocr_cover, ocr_info, ocr_eng, hints, info_data, response, calls,
                 catalog_answer, input, output, serving, best_result>>

\* lines 719-728: the hints of the catalog text, computed before the catalog call
Hints ==
    /\ pc = "hints"
    /\ Len(Strip(ocr_info)) > 0
    /\ hints' = HintBundle(CombinedText(ocr_info, ocr_eng))
    /\ pc' = "catalog"
    /\ UNCHANGED <<req, ocr_cover, ocr_info, ocr_eng, cover_data, info_data, response, calls,
                 catalog_answer, input, output, serving, best_result>>

\* the catalog completion call made a second time when the first one failed
C15_RetryCatalog ==
    /\ pc = "catalog"
    /\ \E answer \in CatalogAnswers :
          /\ catalog_answer' = answer
          /\ calls' = Append(calls, Completion("catalog", answer))
          /\ IF answer.kind # "ok" /\ calls[Len(calls)].path # "catalog"
             THEN /\ pc' = "catalog"
                  /\ UNCHANGED info_data
             ELSE /\ info_data' = CatalogRecord(hints, answer).data
                  /\ pc' = "merge"
    /\ UNCHANGED <<req, ocr_cover, ocr_info, ocr_eng, hints, cover_data, response, input,
                 output, serving, best_result>>

\* lines 731-776: the catalog completion call and the record made of its answer
Catalog ==
    /\ pc = "catalog"
    /\ \E answer \in CatalogAnswers :
          \E r \in {CatalogRecord(hints, answer)} :
             /\ catalog_answer' = answer
             /\ calls' = Append(calls, Completion("catalog", answer))
             /\ IF r.exc
                THEN /\ response' = OnException("extraction")
                     /\ pc' = "done"
                     /\ UNCHANGED info_data
                ELSE /\ info_data' = r.data
                     /\ pc' = "merge"
                     /\ UNCHANGED response
    /\ UNCHANGED <<req, ocr_cover, ocr_info, ocr_eng, hints, cover_data, input, output,
                 serving, best_result>>

\* line 849: info_data = {} when the info pages and the back cover have no text
SkipCatalog ==
    /\ pc = "hints"
    /\ Len(Strip(ocr_info)) = 0
    /\ info_data' = NoInfoData
    /\ pc' = "merge"
    /\ UNCHANGED <<req, ocr_cover, ocr_info, ocr_eng, hints, cover_data, response, calls,
                 catalog_answer, input, output, serving, best_result>>

\* lines 851-882: the merge of the two records and the response
Respond ==
    /\ pc = "merge"
    /\ response' = Validated200(Merge(info_data, cover_data), RawOcr(ocr_cover, ocr_info))
    /\ pc' = "done"
    /\ UNCHANGED <<req, ocr_cover, ocr_info, ocr_eng, hints, cover_data, info_data, calls,
                 catalog_answer, input, output, serving, best_result>>

Next ==
    \/ Recognize
    \/ NoText
    \/ Cover
    \/ SkipCover
    \/ Hints
    \/ Catalog
    \/ SkipCatalog
    \/ Respond

Spec == Init /\ [][Next]_vars

(***************************************************************************)
(* ocr.extract_isbn called on its own, as test_app.py calls it             *)
(***************************************************************************)
Marker13 == <<"I", "S", "B", "N", "-", "1", "3", ":", " ">>
IsbnMarkers ==
    { <<"I", "S", "B", "N", " ">>, <<"I", "S", "B", "N", ":", " ">>,
      <<"i", "s", "b", "n", " ">>, Marker13 }

Isbn13 == <<"9", "7", "8", "-", "5", "-", "1", "7", "-", "1", "2", "3", "4", "5", "6", "-", "7">>
Isbn10 == <<"0", "-", "3", "0", "6", "-", "4", "0", "6", "1", "5", "-", "2">>
IsbnNumbers == {Isbn13, Isbn10}

\* text before the marker: none, the test's, a sentence, and one that names the
\* marker word
TextsBefore ==
    { <<>>, <<"T", "e", "x", "t", " ", "b", "e", "f", "o", "r", "e", " ">>,
      <<"RU_ES", "ru_em", ".", " ">>,
      <<"N", "o", " ", "i", "s", "b", "n", " ", "y", "e", "t", ".", " ">> }

\* text after the number on its line: none, the test's, a bracket, and words that
\* begin with x and X
TextsAfter ==
    { <<>>, <<" ", "t", "e", "x", "t", " ", "a", "f", "t", "e", "r">>,
      <<" ", "(", "p", "b", "k", ")">>, <<" ", "x", "e", "r", "o", "x">>,
      <<" ", "X", "L">> }

IsbnTexts ==
    {before \o marker \o number \o after :
        before \in TextsBefore, marker \in IsbnMarkers, number \in IsbnNumbers,
        after \in TextsAfter}

InitIsbn ==
    /\ pc = "call"
    /\ input \in IsbnTexts
    /\ output = <<>>
    /\ req = [cover_image |-> FALSE, info_images |-> 0, back_image |-> FALSE]
    /\ ocr_cover = <<>>
    /\ ocr_info = <<>>
    /\ ocr_eng = <<>>
    /\ hints = NoHints
    /\ catalog_answer = NoAnswer
    /\ cover_data = NoCoverData
    /\ info_data = NoInfoData
    /\ response = NoResponse
    /\ calls = <<>>
    /\ serving = <<>>
    /\ best_result = NoResult

\* extract_isbn(ocr_text) of ocr.py
OcrExtractIsbn ==
    /\ pc = "call"
    /\ output' = ocr_extract_isbn(input)
    /\ pc' = "returned"
    /\ UNCHANGED <<req, ocr_cover, ocr_info, ocr_eng, hints, catalog_answer, cover_data,
                   info_data, response, calls, input, serving, best_result>>

NextIsbn == OcrExtractIsbn

SpecIsbn == InitIsbn /\ [][NextIsbn]_vars

(***************************************************************************)
(* The hints of a text and the record made of them alone                   *)
(***************************************************************************)
\* "K89 Kuvaev, O. M. -- Territoriya : roman. -- Moskva : Azbuka, 2020. -- 416 s."
Kuvaev ==
    <<"RU_KA", "8", "9", " ", "RU_KA", "ru_u", "ru_ve", "ru_a", "ru_ie", "ru_ve", ",", " ",
      "RU_O", ".", " ", "RU_EM", ".", " ", "EMDASH", " ", "RU_TE", "ru_ie", "ru_er",
      "ru_er", "ru_i", "ru_te", "ru_o", "ru_er", "ru_i", "ru_ya", " ", ":", " ", "ru_er",
      "ru_o", "ru_em", "ru_a", "ru_en", ".", " ", "EMDASH", " ", "RU_EM", "ru_o", "ru_es",
      "ru_ka", "ru_ve", "ru_a", " ", ":", " ", "RU_A", "ru_ze", "ru_be", "ru_u", "ru_ka",
      "ru_a", ",", " ", "2", "0", "2", "0", ".", " ", "EMDASH", " ", "4", "1", "6", " ",
      "ru_es", ".">>

\* a GOST entry without author, "M68 Mify Severa. -- Moskva : Eksmo, 2024."
Mify ==
    <<"RU_EM", "6", "8", " ", "RU_EM", "ru_i", "ru_ef", "ru_yeru", " ", "RU_ES", "ru_ie",
      "ru_ve", "ru_ie", "ru_er", "ru_a", ".", " ", "EMDASH", " ", "RU_EM", "ru_o", "ru_es",
      "ru_ka", "ru_ve", "ru_a", " ", ":", " ", "RU_E", "ru_ka", "ru_es", "ru_em", "ru_o",
      ",", " ", "2", "0", "2", "4", ".">>

IsbnLine == <<"I", "S", "B", "N", " ", "9", "7", "8", "-", "5", "-", "1", "7", "-", "1", "2", "3", "4", "5", "6", "-", "7">>

ShortIsbnLine == <<"I", "S", "B", "N", " ", "1", "2", "3">>

\* what the text is about: a GOST entry with or without author, an ISBN line
HintCores == {Kuvaev, Mify, IsbnLine, ShortIsbnLine, Kuvaev \o <<"\n">> \o IsbnLine}

\* an English citation, "Tolkien. The Hobbit. London: Allen, 1937"
Hobbit ==
    <<"T", "o", "l", "k", "i", "e", "n", ".", " ", "T", "h", "e", " ", "H", "o", "b", "b",
      "i", "t", ".", " ", "L", "o", "n", "d", "o", "n", ":", " ", "A", "l", "l", "e", "n",
      ",", " ", "1", "9", "3", "7">>

\* text before: none, words on the same line, a reviewer's name on the line above,
\* an English citation on the line above
HintTextsBefore ==
    { <<>>, <<"T", "e", "x", "t", " ", "b", "e", "f", "o", "r", "e", " ">>,
      <<"RU_ER", "ru_ie", "ru_tse", "ru_ie", "ru_en", "ru_ze", "ru_ie", "ru_en", "ru_te",
        " ", "RU_I", "ru_ve", "ru_a", "ru_en", "ru_o", "ru_ve", " ", "RU_A", ".", " ",
        "RU_BE", ".", "\n">>,
      Hobbit \o <<"\n">> }

\* text after: none, a line end, words on the same line, a bracket, a further line,
\* an English citation on the next line
HintTextsAfter ==
    { <<>>, <<"\n">>, <<" ", "t", "e", "x", "t", " ", "a", "f", "t", "e", "r">>,
      <<" ", "(", "p", "b", "k", ")">>,
      <<"\n", "RU_U", "RU_DE", "RU_KA", " ", "8", "2", "1", ".", "1", "6", "1">>,
      <<"\n">> \o Hobbit }

HintTexts ==
    {before \o core \o after :
        before \in HintTextsBefore, core \in HintCores, after \in HintTextsAfter}

InitHints ==
    /\ pc = "call"
    /\ input \in HintTexts
    /\ output = <<>>
    /\ req = [cover_image |-> FALSE, info_images |-> 0, back_image |-> FALSE]
    /\ ocr_cover = <<>>
    /\ ocr_info = <<>>
    /\ ocr_eng = <<>>
    /\ hints = NoHints
    /\ catalog_answer = NoAnswer
    /\ cover_data = NoCoverData
    /\ info_data = NoInfoData
    /\ response = NoResponse
    /\ calls = <<>>
    /\ serving = <<>>
    /\ best_result = NoResult

\* lines 722-728 and 758-776: the hints of the text, and the record
\* extract_metadata_with_llm makes of them when the completion call fails
HintsOnly ==
    /\ pc = "call"
    /\ \E h \in {HintBundle(input)} :
          /\ hints' = h
          /\ info_data' = Fallback(h).data
    /\ pc' = "returned"
    /\ UNCHANGED <<req, ocr_cover, ocr_info, ocr_eng, catalog_answer, cover_data, response,
                 calls, input, output, serving, best_result>>

NextHints == HintsOnly

SpecHints == InitHints /\ [][NextHints]_vars

(***************************************************************************)
(* clean_annotation applied to its own result                              *)
(***************************************************************************)
MaxAnnotationLen == 3

\* letters, sentence ends and a blank
AnnotationChars == {"a", "b", ".", "!", " "}

\* every text of at most MaxAnnotationLen characters, the sentinel, and a text with
\* a repeated sentence
AnnotationTexts ==
    UNION {[1..n -> AnnotationChars] : n \in 0..MaxAnnotationLen}
    \cup {Unknown, <<"A", " ", "n", "e", "w", " ", "b", "o", "o", "k", ".", " ", "A", " ", "n", "e", "w", " ", "b", "o", "o", "k", ".", " ", "R", "e", "a", "d", " ", "i", "t", "!">>}

InitAnnotation ==
    /\ pc = "call"
    /\ input \in AnnotationTexts
    /\ output = <<>>
    /\ req = [cover_image |-> FALSE, info_images |-> 0, back_image |-> FALSE]
    /\ ocr_cover = <<>>
    /\ ocr_info = <<>>
    /\ ocr_eng = <<>>
    /\ hints = NoHints
    /\ catalog_answer = NoAnswer
    /\ cover_data = NoCoverData
    /\ info_data = NoInfoData
    /\ response = NoResponse
    /\ calls = <<>>
    /\ serving = <<>>
    /\ best_result = NoResult

\* lines 570-586: clean_annotation of the text, then of what it returned
CleanAnnotation ==
    /\ pc \in {"call", "once"}
    /\ output' = clean_annotation(PyStr(IF pc = "call" THEN input ELSE output)).data.s
    /\ pc' = (IF pc = "call" THEN "once" ELSE "twice")
    /\ UNCHANGED <<req, ocr_cover, ocr_info, ocr_eng, hints, catalog_answer, cover_data,
                 info_data, response, calls, input, serving, best_result>>

NextAnnotation == CleanAnnotation

SpecAnnotation == InitAnnotation /\ [][NextAnnotation]_vars

(***************************************************************************)
(* normalize_author_title on titles that embed the author                  *)
(***************************************************************************)
Surnames == {<<"RU_KA", "ru_u", "ru_ve", "ru_a", "ru_ie", "ru_ve">>, <<"RU_YA", "ru_en">>}

GivenNames == {<<"RU_O", "ru_el", "ru_ie", "ru_ghe">>, <<"RU_VE", "ru_a", "ru_es", "ru_i", "ru_el", "ru_i", "ru_short_i">>}

\* an em dash or a hyphen, with and without blanks around it
Dashes == {<<" ", "EMDASH", " ">>, <<"EMDASH">>, <<" ", "-", " ">>, <<"-">>}

RestTitles ==
    { <<"RU_TE", "ru_ie", "ru_er", "ru_er", "ru_i", "ru_te", "ru_o", "ru_er", "ru_i", "ru_ya">>,
      <<"RU_BE", "ru_a", "ru_te", "ru_yeru", "ru_short_i">>,
      <<"RU_BE", "ru_a", "ru_te", "ru_yeru", "ru_short_i", " ", "ru_ha", "ru_a", "ru_en">>,
      <<"RU_ZE", "ru_ve", "ru_ie", "ru_ze", "ru_de", "ru_yeru", " ", "ru_i", " ", "ru_ef", "ru_i", "ru_ze", "ru_i", "ru_ka", "ru_a">> }

\* "Surname, Given. -- Rest"
Embedded(surname, given, dash, rest) ==
    surname \o <<",", " ">> \o given \o <<".">> \o dash \o rest

EmbeddedTitles ==
    {Embedded(surname, given, dash, rest) :
        surname \in Surnames, given \in GivenNames, dash \in Dashes, rest \in RestTitles}

InitTitle ==
    /\ pc = "call"
    /\ input \in EmbeddedTitles
    /\ info_data \in {[GoodData EXCEPT !.title = PyStr(input), !.author = a] :
                         a \in {PyStr(Unknown), GoodData.author}}
    /\ output = <<>>
    /\ req = [cover_image |-> FALSE, info_images |-> 0, back_image |-> FALSE]
    /\ ocr_cover = <<>>
    /\ ocr_info = <<>>
    /\ ocr_eng = <<>>
    /\ hints = NoHints
    /\ catalog_answer = NoAnswer
    /\ cover_data = NoCoverData
    /\ response = NoResponse
    /\ calls = <<>>
    /\ serving = <<>>
    /\ best_result = NoResult

\* lines 496-530: normalize_author_title(data), which changes data in place
NormalizeAuthorTitle ==
    /\ pc = "call"
    /\ info_data' = normalize_author_title(info_data).data
    /\ pc' = "returned"
    /\ UNCHANGED <<req, ocr_cover, ocr_info, ocr_eng, hints, catalog_answer, cover_data,
                 response, calls, input, output, serving, best_result>>

NextTitle == NormalizeAuthorTitle

SpecTitle == InitTitle /\ [][NextTitle]_vars

(***************************************************************************)
(* Two requests served at once                                             *)
(***************************************************************************)
Clients == {"first", "second"}

\* what one request is given from outside: whether it has a cover image, how
\* recognition reads its info page, and the answers to its two completion calls
Exchanges ==
    [cover_image : BOOLEAN, page : InfoScans,
     cover_answer : {Answer([f \in Fields |->
                        IF f \in {"title", "author"} THEN GoodData[f] ELSE Missing])},
     catalog_answer : {Failure("transport"), Answer(GoodData)}]

\* the cover as recognition reads it: Tesseract nothing, the vision model the text
CoverScan == Scan(<<>>, <<>>, VisionText(CoverText))

\* lines 824-828: ocr_cover of a request
CoverOcr(given) ==
    IF given.cover_image
    THEN ocr_with_vision_fallback(CoverScan.vision, CoverScan.rus) ELSE <<>>

\* lines 831-835: ocr_info of a request with one info page
InfoOcr(given) == InfoText(<<given.page>>, 1)

\* lines 827 and 834: ocr_eng of a request with one info page
EngOcr(given) ==
    (IF given.cover_image THEN CoverHeader \o CoverScan.eng \o <<"\n">> ELSE <<>>)
    \o InfoEng(<<given.page>>, 1)

\* line 846
CoverData(cover_text, answer) ==
    IF Len(Strip(cover_text)) > 0 THEN extract_cover_metadata(answer) ELSE NoCoverData

\* the info text kept in one place for all requests, the last recognition of the
\* first request having written it
C16_SharedInfo(client) == serving["first"].ocr_info

\* what a request's text is read from when the catalog call is made: the request's
\* own ocr_info
OwnInfo(client) == serving[client].ocr_info

\* the local variables of a request before its first statement
Arrived(given) ==
    [pc |-> "recognize", given |-> given, ocr_cover |-> <<>>, ocr_info |-> <<>>,
     ocr_eng |-> <<>>, cover_data |-> NoCoverData, info_data |-> NoInfoData,
     response |-> NoResponse]

\* lines 851-878
ResponseTo(cover_text, info_text, cover, info) ==
    Validated200(Merge(info, cover), RawOcr(cover_text, info_text))

\* lines 849-882, the catalog call having given tried
AfterCatalog(cover_text, info_text, cover, tried) ==
    IF tried.exc THEN OnException("extraction")
    ELSE ResponseTo(cover_text, info_text, cover, tried.data)

\* the endpoint as a function of what one request is given: lines 819-882 run from
\* the first to the last with no other request in between. The header of the info
\* page makes the test of line 842 pass and the catalog call of line 849 happen.
extract_metadata(given) ==
    AfterCatalog(CoverOcr(given), InfoOcr(given),
                 CoverData(CoverOcr(given), given.cover_answer),
                 extract_metadata_with_llm(InfoOcr(given), EngOcr(given),
                                           given.catalog_answer))

InitServing ==
    /\ serving \in [Clients -> {Arrived(given) : given \in Exchanges}]
    /\ best_result = NoResult
    /\ pc = "serving"
    /\ input = <<>>
    /\ output = <<>>
    /\ req = [cover_image |-> FALSE, info_images |-> 0, back_image |-> FALSE]
    /\ ocr_cover = <<>>
    /\ ocr_info = <<>>
    /\ ocr_eng = <<>>
    /\ hints = NoHints
    /\ catalog_answer = NoAnswer
    /\ cover_data = NoCoverData
    /\ info_data = NoInfoData
    /\ response = NoResponse
    /\ calls = <<>>

\* lines 819-840 for one request
RecognizeFor(client) ==
    /\ serving[client].pc = "recognize"
    /\ serving' = [serving EXCEPT ![client].ocr_cover = CoverOcr(serving[client].given),
                                  ![client].ocr_info = InfoOcr(serving[client].given),
                                  ![client].ocr_eng = EngOcr(serving[client].given),
                                  ![client].pc = "cover"]

\* lines 842-846 for one request
CoverFor(client) ==
    /\ serving[client].pc = "cover"
    /\ ~(Len(Strip(serving[client].ocr_cover)) = 0 /\ Len(Strip(serving[client].ocr_info)) = 0)
    /\ serving' = [serving EXCEPT ![client].cover_data =
                                      CoverData(serving[client].ocr_cover,
                                                serving[client].given.cover_answer),
                                  ![client].pc = "catalog"]

\* line 849 for one request, and lines 880-882 when the call raises
CatalogFor(client) ==
    /\ serving[client].pc = "catalog"
    /\ Len(Strip(OwnInfo(client))) > 0
    /\ \E tried \in {extract_metadata_with_llm(OwnInfo(client), serving[client].ocr_eng,
                                               serving[client].given.catalog_answer)} :
          serving' = [serving EXCEPT
                         ![client].info_data =
                             IF tried.exc THEN serving[client].info_data ELSE tried.data,
                         ![client].response =
                             IF tried.exc THEN OnException("extraction")
                             ELSE serving[client].response,
                         ![client].pc = IF tried.exc THEN "done" ELSE "merge"]

\* lines 851-878 for one request
RespondFor(client) ==
    /\ serving[client].pc = "merge"
    /\ serving' = [serving EXCEPT ![client].response =
                                      ResponseTo(serving[client].ocr_cover,
                                                 serving[client].ocr_info,
                                                 serving[client].cover_data,
                                                 serving[client].info_data),
                                  ![client].pc = "done"]

\* one statement of one request, the other request anywhere in its own run
NextServing ==
    /\ \E client \in Clients :
          \/ RecognizeFor(client)
          \/ CoverFor(client)
          \/ CatalogFor(client)
          \/ RespondFor(client)
    /\ UNCHANGED <<pc, req, ocr_cover, ocr_info, ocr_eng, hints, catalog_answer, cover_data,
                 info_data, response, calls, input, output, best_result>>

SpecServing == InitServing /\ [][NextServing]_vars

(***************************************************************************)
(* finalize called on its own                                              *)
(***************************************************************************)
\* the values a model's object may carry for isbn, and for udk and bbk
FinalizeIsbns == ModelIsbns \cup {PyStr(<<>>)}
FinalizeCodes == ModelCodes \cup {PyStr(<<>>)}

\* the hints of a text for isbn, and for udk and bbk: none, and one as the
\* extractors return it
IsbnHints == {Unknown, <<"9", "7", "8", "5", "1", "7", "1", "2", "3", "4", "5", "6", "7">>}
CodeHints == {Unknown, <<"8", "2", "1", ".", "1", "6", "1">>}

InitFinalize ==
    /\ pc = "call"
    /\ input \in {[GoodData EXCEPT !.isbn = i, !.udk = u, !.bbk = b] :
                     i \in FinalizeIsbns, u \in FinalizeCodes, b \in FinalizeCodes}
    /\ hints \in {[NoHints EXCEPT !.isbn = i, !.udk = u, !.bbk = b] :
                     i \in IsbnHints, u \in CodeHints, b \in CodeHints}
    /\ info_data = NoInfoData
    /\ output = <<>>
    /\ req = [cover_image |-> FALSE, info_images |-> 0, back_image |-> FALSE]
    /\ ocr_cover = <<>>
    /\ ocr_info = <<>>
    /\ ocr_eng = <<>>
    /\ catalog_answer = NoAnswer
    /\ cover_data = NoCoverData
    /\ response = NoResponse
    /\ calls = <<>>
    /\ serving = <<>>
    /\ best_result = NoResult

\* lines 595-636: finalize(data, isbn_hint, udk_hint, bbk_hint), which changes data
\* in place or raises
Finalize ==
    /\ pc = "call"
    /\ \E r \in {finalize(input, hints.isbn, hints.udk, hints.bbk)} :
          /\ info_data' = r.data
          /\ pc' = IF r.exc THEN "raised" ELSE "returned"
    /\ UNCHANGED <<req, ocr_cover, ocr_info, ocr_eng, hints, catalog_answer, cover_data,
                 response, calls, input, output, serving, best_result>>

NextFinalize == Finalize

SpecFinalize == InitFinalize /\ [][NextFinalize]_vars

(***************************************************************************)
(* The seven field extractors called on a text                             *)
(***************************************************************************)
\* a page whose UDK number was not recognized: "UDK" alone on its line, above the
\* BBK line or at the end of the text
BlankUdk == <<"RU_U", "RU_DE", "RU_KA", " ", "\n", "RU_BE", "RU_BE", "RU_KA", " ", "8", "4">>
ExtractorTexts ==
    HintTexts \cup {BlankUdk, <<"RU_U", "RU_DE", "RU_KA", ":", " ">>,
                    <<"RU_U", "RU_DE", "RU_KA">>}

InitExtractors ==
    /\ pc = "call"
    /\ input \in ExtractorTexts
    /\ hints = NoHints
    /\ info_data = NoInfoData
    /\ output = <<>>
    /\ req = [cover_image |-> FALSE, info_images |-> 0, back_image |-> FALSE]
    /\ ocr_cover = <<>>
    /\ ocr_info = <<>>
    /\ ocr_eng = <<>>
    /\ catalog_answer = NoAnswer
    /\ cover_data = NoCoverData
    /\ response = NoResponse
    /\ calls = <<>>
    /\ serving = <<>>
    /\ best_result = NoResult

\* lines 181-409: each of the seven extractors called on the text
Extract ==
    /\ pc = "call"
    /\ hints' = HintBundle(input)
    /\ pc' = "returned"
    /\ UNCHANGED <<req, ocr_cover, ocr_info, ocr_eng, info_data, catalog_answer, cover_data,
                 response, calls, input, output, serving, best_result>>

NextExtractors == Extract

SpecExtractors == InitExtractors /\ [][NextExtractors]_vars

(***************************************************************************)
(* The response parser, extract_json and json.loads                        *)
(***************************************************************************)
\* ^BBBjson\s*, B being the backtick
FenceOpen == Cat(<<Word(<<"BACKTICK", "BACKTICK", "BACKTICK", "j", "s", "o", "n">>), Star(Ws)>>)
\* \s*BBB$
FenceClose == Cat(<<Star(Ws), Word(<<"BACKTICK", "BACKTICK", "BACKTICK">>), Eos>>)
\* \{.*\} under re.S
BraceSpan == Cat(<<Lit("{"), Star(NotIn({})), Lit("}")>>)

\* lines 488-490: the text stripped and without its fences
Unfenced(text) == SplitFirst(FenceClose, SubAtStart(FenceOpen, Strip(text)))

\* lines 491-494: the span from the first { to the last }, ValueError without one
SpanOf(m, text) == IF m.ok THEN Ok(Group0(m, text)) ELSE Raised(<<>>)
SpanIn(text) == SpanOf(Search(BraceSpan, text), text)
extract_json(text) == SpanIn(Unfenced(text))

\* json.loads for the objects the responses of the model carry: the empty object
\* and an object with the one key "title" and a string for it; any other span of
\* these responses is no JSON
EmptyObject == Cat(<<Lit("{"), Star(Ws), Lit("}"), Eos>>)
TitleObject ==
    Cat(<<Lit("{"), Star(Ws), Word(<<"\"", "t", "i", "t", "l", "e", "\"">>), Star(Ws), Lit(":"),
          Star(Ws), Lit("\""), Grp(1, Star(NotIn({"\"", "\\", "\n"}))), Lit("\""), Star(Ws),
          Lit("}"), Eos>>)
TitleOnly(title) == [f \in Fields |-> IF f = "title" THEN PyStr(title) ELSE Missing]
LoadsTitle(m, span) ==
    IF m.ok THEN Answer(TitleOnly(Group(m, span, 1))) ELSE Failure("bad_json")
json_loads(span) ==
    IF Match(EmptyObject, span).ok THEN Answer([f \in Fields |-> Missing])
    ELSE LoadsTitle(Match(TitleObject, span), span)

\* lines 746-747: the answer a response text is, result_text being the text
Loaded(span) == IF span.exc THEN Failure("no_json") ELSE json_loads(span.data)
ParsedAnswer(result_text) == Loaded(extract_json(result_text))

\* the objects of the responses, as text and as value
ResponseObjects ==
    { [text |-> <<"{", "}">>, data |-> [f \in Fields |-> Missing]],
      [text |-> <<"{", "\"", "t", "i", "t", "l", "e", "\"", ":", " ", "\"", "RU_BE", "ru_a", "ru_te", "ru_yeru", "ru_short_i", "\"", "}">>,
       data |-> TitleOnly(GoodData.title.s)] }

\* the prose before the object: none, a sentence, a sentence that names a field in
\* braces, blank lines
ProseBefore ==
    { <<>>, <<" ", "\n">>,
      <<"H", "e", "r", "e", " ", "i", "s", " ", "t", "h", "e", " ", "J", "S", "O", "N", ":", "\n">>,
      <<"T", "h", "e", " ", "{", "t", "i", "t", "l", "e", "}", " ", "i", "s", ":", " ">> }

\* the prose after the object: none, a sentence, a sentence that names a field in braces, a
\* line end
ProseAfter ==
    { <<>>, <<"\n">>,
      <<"\n", "D", "o", "n", "e", ".">>,
      <<"\n", "T", "h", "e", " ", "{", "t", "i", "t", "l", "e", "}", " ", "w", "a", "s", " ", "r", "e", "a", "d", ".">> }

Fenced(text) ==
    <<"BACKTICK", "BACKTICK", "BACKTICK", "j", "s", "o", "n", "\n">> \o text \o <<"\n", "BACKTICK", "BACKTICK", "BACKTICK">>

\* a response of one object, fenced or not, with prose around it
Response(before, fenced, object, after) ==
    before \o (IF fenced THEN Fenced(object.text) ELSE object.text) \o after

\* responses without a span from { to }
NoSpanTexts ==
    { <<>>, <<"{">>, <<"}", " ", "{">>,
      <<"I", " ", "c", "a", "n", "n", "o", "t", " ", "r", "e", "a", "d", " ", "i", "t", ".">> }

ResponseTexts ==
    {Response(b, f, o, a) :
        b \in ProseBefore, f \in BOOLEAN, o \in ResponseObjects, a \in ProseAfter}
    \cup NoSpanTexts

\* the hints of the text the response is about
ParserHints == [NoHints EXCEPT !.title = <<"H", "i", "n", "t">>]

InitParser ==
    /\ pc = "call"
    /\ input \in ResponseTexts
    /\ hints = ParserHints
    /\ catalog_answer = NoAnswer
    /\ info_data = NoInfoData
    /\ output = <<>>
    /\ req = [cover_image |-> FALSE, info_images |-> 0, back_image |-> FALSE]
    /\ ocr_cover = <<>>
    /\ ocr_info = <<>>
    /\ ocr_eng = <<>>
    /\ cover_data = NoCoverData
    /\ response = NoResponse
    /\ calls = <<>>
    /\ serving = <<>>
    /\ best_result = NoResult

\* lines 744-776: the response text parsed and the record made of it
ParseResponse ==
    /\ pc = "call"
    /\ catalog_answer' = ParsedAnswer(input)
    /\ info_data' = CatalogRecord(hints, ParsedAnswer(input)).data
    /\ pc' = "returned"
    /\ UNCHANGED <<req, ocr_cover, ocr_info, ocr_eng, hints, cover_data, response, calls,
                 input, output, serving, best_result>>

NextParser == ParseResponse

SpecParser == InitParser /\ [][NextParser]_vars

(***************************************************************************)
(* A request with a cover whose English pass varies                        *)
(***************************************************************************)
\* what the English pass reads on the cover: nothing, the title taken for Latin
\* letters, an ISBN printed on the cover, "(pbk)" after it
CoverEnglish ==
    { <<>>, <<"B", "A", "T", "b", "I", "U">>,
      <<"I", "S", "B", "N", " ", "0", "-", "3", "0", "6", "-", "4", "0", "6", "1", "5", "-", "2",
        " ", "(", "p", "b", "k", ")">> }

\* line 827 and lines 831-835: ocr_eng with eng read on the cover
EngWith(eng, pages, n) == CoverHeader \o eng \o <<"\n">> \o InfoEng(pages, n)

InitCover ==
    /\ pc = "recognize"
    /\ req \in {[cover_image |-> TRUE, info_images |-> n, back_image |-> FALSE] : n \in 0..1}
    /\ input \in CoverEnglish
    /\ output = <<>>
    /\ ocr_cover = <<>>
    /\ ocr_info = <<>>
    /\ ocr_eng = <<>>
    /\ hints = NoHints
    /\ catalog_answer = NoAnswer
    /\ cover_data = NoCoverData
    /\ info_data = NoInfoData
    /\ response = NoResponse
    /\ calls = <<>>
    /\ serving = <<>>
    /\ best_result = NoResult

\* lines 819-835: the cover, which Tesseract reads, and the info pages recognized,
\* the English pass of the cover reading input
RecognizeCover ==
    /\ pc = "recognize"
    /\ \E pages \in [1..req.info_images -> InfoScans] :
          /\ ocr_cover' = ocr_with_vision_fallback(VisionText(<<" ">>), CoverText)
          /\ ocr_info' = InfoText(pages, req.info_images)
          /\ ocr_eng' = EngWith(input, pages, req.info_images)
    /\ calls' = [i \in 1..3 |->
                    [call |-> <<"ocr", "ocr", "vision">>[i], path |-> "cover", outcome |-> ""]]
                \o [i \in 1..(3 * req.info_images) |->
                    [call |-> InfoCalls(req.info_images)[i], path |-> "info", outcome |-> ""]]
    /\ pc' = "check"
    /\ UNCHANGED <<req, hints, cover_data, info_data, response,
                 catalog_answer, input, output, serving, best_result>>

NextCover ==
    \/ RecognizeCover
    \/ Cover
    \/ Hints
    \/ Catalog
    \/ SkipCatalog
    \/ Respond

SpecCover == InitCover /\ [][NextCover]_vars

(***************************************************************************)
(* The English citation parser called on a citation                        *)
(***************************************************************************)
EnglishAuthors == { <<"T", "o", "l", "k", "i", "e", "n">>, <<"T", "o", "l", "k", "i", "e", "n", ",", " ", "J", "o", "h", "n">> }

\* titles: two words, one word, and one with a slash in it
EnglishTitles == { <<"T", "h", "e", " ", "H", "o", "b", "b", "i", "t">>, <<"H", "o", "b", "b", "i", "t">>, <<"H", "o", "b", "b", "i", "t", " ", "/", " ", "T", "h", "e", "r", "e", " ", "a", "n", "d", " ", "B", "a", "c", "k">> }

\* ". London: Allen, 1937" and ". - London : Allen, 1937"
ColonImprint == <<".", " ", "L", "o", "n", "d", "o", "n", ":", " ", "A", "l", "l", "e", "n", ",", " ", "1", "9", "3", "7">>
DashImprint == <<".", " ", "-", " ", "L", "o", "n", "d", "o", "n", " ", ":", " ", "A", "l", "l", "e", "n", ",", " ", "1", "9", "3", "7">>

\* "Author. Title. Place: Publisher, Year"
AuthorFirst(author, title) == author \o <<".", " ">> \o title \o ColonImprint
\* "Title / Author. - Place : Publisher, Year"
TitleFirst(title, author) == title \o <<" ", "/", " ">> \o author \o DashImprint

\* what stands before and after the citation on the page
CitationsBefore == { <<>>, <<"\n">>, <<"s", "e", "e", " ", "a", "l", "s", "o", " ">> }
CitationsAfter == { <<>>, <<".">>, <<"\n">>, <<" ", "3", "1", "0", " ", "p", ".">> }

EnglishCitations ==
    {before \o AuthorFirst(author, title) \o after :
        before \in CitationsBefore, author \in EnglishAuthors, title \in EnglishTitles,
        after \in CitationsAfter}
    \cup {before \o TitleFirst(title, author) \o after :
        before \in CitationsBefore, author \in EnglishAuthors,
        title \in {t \in EnglishTitles : "/" \notin Range(t)}, after \in CitationsAfter}

InitEnglish ==
    /\ pc = "call"
    /\ input \in EnglishCitations
    /\ output = NoEntry
    /\ hints = NoHints
    /\ catalog_answer = NoAnswer
    /\ info_data = NoInfoData
    /\ req = [cover_image |-> FALSE, info_images |-> 0, back_image |-> FALSE]
    /\ ocr_cover = <<>>
    /\ ocr_info = <<>>
    /\ ocr_eng = <<>>
    /\ cover_data = NoCoverData
    /\ response = NoResponse
    /\ calls = <<>>
    /\ serving = <<>>
    /\ best_result = NoResult

\* lines 265-307: extract_english_bibliographic_entry(ocr)
ParseEnglish ==
    /\ pc = "call"
    /\ output' = extract_english_bibliographic_entry(input)
    /\ pc' = "returned"
    /\ UNCHANGED <<req, ocr_cover, ocr_info, ocr_eng, hints, catalog_answer, cover_data,
                 info_data, response, calls, input, serving, best_result>>

NextEnglish == ParseEnglish

SpecEnglish == InitEnglish /\ [][NextEnglish]_vars

(***************************************************************************)
(* ocr_with_vision_fallback called on one image                            *)
(***************************************************************************)
\* the text of a page, 63 characters long
PageText ==
    <<"RU_KA", "8", " ", "RU_YA", "ru_en", ",", " ", "RU_VE", ".", " ", "RU_GHE", ".", " ",
      "EMDASH", " ", "RU_BE", "ru_a", "ru_te", "ru_yeru", "ru_short_i", " ", ":", " ",
      "ru_er", "ru_o", "ru_em", "ru_a", "ru_en", ".", " ", "EMDASH", " ", "RU_EM", "ru_o",
      "ru_es", "ru_ka", "ru_ve", "ru_a", " ", ":", " ", "RU_A", "ru_ze", "ru_be", "ru_u",
      "ru_ka", "ru_a", ",", " ", "2", "0", "2", "0", ".", " ", "EMDASH", " ", "4", "1", "6",
      " ", "ru_es", ".">>

\* what Tesseract reads of the page: its first characters, none to all of them,
\* without noise or with a stroke read before them
TesseractTexts ==
    {SubSeq(PageText, 1, n) : n \in 0..Len(PageText)}
    \cup {<<"|">> \o SubSeq(PageText, 1, n) : n \in 0..Len(PageText)}

\* what the vision model answers: nothing, an empty text, the start of the page,
\* the page and a line more
VisionAnswers ==
    { VisionDown, VisionText(<<>>), VisionText(SubSeq(PageText, 1, 20)),
      VisionText(PageText \o <<"\n", "I", "S", "B", "N", " ", "9", "7", "8">>) }

InitVision ==
    /\ pc = "call"
    /\ input \in [tesseract_result : TesseractTexts, vision : VisionAnswers]
    /\ output = <<>>
    /\ calls = <<>>
    /\ hints = NoHints
    /\ catalog_answer = NoAnswer
    /\ info_data = NoInfoData
    /\ req = [cover_image |-> FALSE, info_images |-> 0, back_image |-> FALSE]
    /\ ocr_cover = <<>>
    /\ ocr_info = <<>>
    /\ ocr_eng = <<>>
    /\ cover_data = NoCoverData
    /\ response = NoResponse
    /\ serving = <<>>
    /\ best_result = NoResult

\* lines 144-180: the request to the vision model, made for every image since the
\* quality test of line 149 stands in a comment, and the text returned
VisionFallback ==
    /\ pc = "call"
    /\ calls' = <<[call |-> "vision", path |-> "image",
                   outcome |-> IF input.vision.ok THEN "ok" ELSE "down"]>>
    /\ output' = ocr_with_vision_fallback(input.vision, input.tesseract_result)
    /\ pc' = "returned"
    /\ UNCHANGED <<req, ocr_cover, ocr_info, ocr_eng, hints, catalog_answer, cover_data,
                 info_data, response, input, serving, best_result>>

NextVision == VisionFallback

SpecVision == InitVision /\ [][NextVision]_vars

(***************************************************************************)
(* ocr_image_rgb_channels called on one cover                              *)
(***************************************************************************)
\* lines 107, 119, 129: the channels of the three phases, in the order tried
Phase1 == <<"G", "M", "original">>
Phase2 == <<"R", "B">>
Phase3 == <<"C", "Y", "K">>
ChannelOrder == Phase1 \o Phase2 \o Phase3
ChannelNames == {ChannelOrder[i] : i \in DOMAIN ChannelOrder}

\* line 96: the name of the inverted variant of a channel
InvName ==
    [G |-> "G-inv", M |-> "M-inv", original |-> "original-inv", R |-> "R-inv",
     B |-> "B-inv", C |-> "C-inv", Y |-> "Y-inv", K |-> "K-inv"]
Variants == ChannelNames \cup {InvName[name] : name \in ChannelNames}

\* what Tesseract gives for one variant: the first n characters of the page and
\* a newline
Reading(n) == SubSeq(PageText, 1, n) \o <<"\n">>

\* the lengths read from most variants of a cover, and from its legible ones
FaintLengths == {0, 5}
LegibleLengths == {0, 19, 20, 40}

\* a cover: what Tesseract reads from each variant, the same faint text from all
\* but two of them
CoverImage(faint, first, n, second, k) ==
    [v \in Variants |-> IF v = second THEN Reading(k)
                        ELSE IF v = first THEN Reading(n)
                        ELSE Reading(faint)]
CoverImages ==
    { CoverImage(faint, first, n, second, k) :
        faint \in FaintLengths, first \in Variants, n \in LegibleLengths,
        second \in Variants, k \in LegibleLengths }

\* the text of the channel as it is, whatever its inverted variant reads
C30_NormalOnly(ocr_norm, ocr_inv, name) == Result(ocr_norm, name)

\* lines 93-96: the longer of the two texts of a channel, the normal one when
\* they are equally long
Longer(ocr_norm, ocr_inv, name) ==
    IF Len(ocr_norm) >= Len(ocr_inv) THEN Result(ocr_norm, name)
    ELSE Result(ocr_inv, InvName[name])

\* lines 89-96
try_ocr(image, name) == Longer(Strip(image[name]), Strip(image[InvName[name]]), name)

\* the two calls of Tesseract try_ocr makes, and what each read
Tried(image, name) ==
    << [call |-> "ocr", path |-> name, outcome |-> Strip(image[name])],
       [call |-> "ocr", path |-> InvName[name], outcome |-> Strip(image[InvName[name]])] >>

\* where the function stands after a channel that did not end it: the next
\* channel of the phase, or the test after the phase
AfterChannel ==
    [G |-> "M", M |-> "original", original |-> "phase2", R |-> "B", B |-> "phase3",
     C |-> "Y", Y |-> "K", K |-> "final"]

InitChannels ==
    /\ pc = "G"
    /\ input \in CoverImages
    /\ best_result = NoResult
    /\ output = <<>>
    /\ calls = <<>>
    /\ hints = NoHints
    /\ catalog_answer = NoAnswer
    /\ info_data = NoInfoData
    /\ req = [cover_image |-> TRUE, info_images |-> 0, back_image |-> FALSE]
    /\ ocr_cover = <<>>
    /\ ocr_info = <<>>
    /\ ocr_eng = <<>>
    /\ cover_data = NoCoverData
    /\ response = NoResponse
    /\ serving = <<>>

\* the body of the three loops, lines 108-115, 120-125, 130-135: a result longer
\* than the best becomes the best, and is returned when it has 40 characters
TryChannel(name, result) ==
    /\ calls' = calls \o Tried(input, name)
    /\ best_result' = IF result.len > best_result.len THEN result ELSE best_result
    /\ IF result.len > best_result.len /\ result.len >= 40
       THEN pc' = "returned" /\ output' = result.text
       ELSE pc' = AfterChannel[name] /\ output' = output
    /\ UNCHANGED <<req, ocr_cover, ocr_info, ocr_eng, hints, catalog_answer, cover_data,
                 info_data, response, input, serving>>

\* lines 107-115
TryPhase1 ==
    /\ pc \in {Phase1[i] : i \in DOMAIN Phase1}
    /\ TryChannel(pc, try_ocr(input, pc))

\* line 118
EnterPhase2 ==
    /\ pc = "phase2"
    /\ pc' = IF best_result.len < 20 THEN Phase2[1] ELSE "phase3"
    /\ UNCHANGED <<req, ocr_cover, ocr_info, ocr_eng, hints, catalog_answer, cover_data,
                 info_data, response, calls, input, output, serving, best_result>>

\* lines 119-125
TryPhase2 ==
    /\ pc \in {Phase2[i] : i \in DOMAIN Phase2}
    /\ TryChannel(pc, try_ocr(input, pc))

\* line 128
EnterPhase3 ==
    /\ pc = "phase3"
    /\ pc' = IF best_result.len < 20 THEN Phase3[1] ELSE "final"
    /\ UNCHANGED <<req, ocr_cover, ocr_info, ocr_eng, hints, catalog_answer, cover_data,
                 info_data, response, calls, input, output, serving, best_result>>

\* lines 129-135
TryPhase3 ==
    /\ pc \in {Phase3[i] : i \in DOMAIN Phase3}
    /\ TryChannel(pc, try_ocr(input, pc))

\* line 138
ReturnBest ==
    /\ pc = "final"
    /\ output' = best_result.text
    /\ pc' = "returned"
    /\ UNCHANGED <<req, ocr_cover, ocr_info, ocr_eng, hints, catalog_answer, cover_data,
                 info_data, response, calls, input, serving, best_result>>

NextChannels ==
    TryPhase1 \/ EnterPhase2 \/ TryPhase2 \/ EnterPhase3 \/ TryPhase3 \/ ReturnBest

SpecChannels == InitChannels /\ [][NextChannels]_vars

(***************************************************************************)
(* Properties of the /extract endpoint                                     *)
(***************************************************************************)
Blank(text) == Len(Strip(text)) = 0

\* the request ended with the record of a 200 response
Returned == pc = "done" /\ response.status = 200

\* the catalog completion call was made and its try block did not return: the call
\* failed, or normalizing the model's object raised
CatalogFailed ==
    /\ catalog_answer.kind # "none"
    /\ catalog_answer.kind # "ok" \/ Normalized(catalog_answer.data, hints).exc

\* "BATYI" in Cyrillic, the title of the catalog page and of the cover
Batyi == <<"RU_BE", "ru_a", "ru_te", "ru_yeru", "ru_short_i">>

\* C1: a request whose cover text and info text are both blank ends as the client
\* error 400 "No OCR text"
C1_NoTextIsClientError ==
    (pc = "done" /\ Blank(ocr_cover) /\ Blank(ocr_info)) => response.status = 400

\* C2: a request with text from some region ends with a 200 record, whatever the
\* model answered
C2_RecordWheneverText ==
    (pc = "done" /\ ~(Blank(ocr_cover) /\ Blank(ocr_info))) => response.status = 200

\* the record of the hints: the seven hints and annotation "unknown"
C3_HintsOnly ==
    [title |-> PyStr(hints.title), author |-> PyStr(hints.author),
     publisher |-> PyStr(hints.publisher), year |-> PyInt(hints.year),
     isbn |-> PyStr(hints.isbn), udk |-> PyStr(hints.udk), bbk |-> PyStr(hints.bbk),
     annotation |-> PyStr(Unknown)]

\* C3: when the catalog call fails in any way, the catalog record that
\* extract_metadata_with_llm returns is the hints-only record passed through
\* normalize_author_title, normalize_strings, normalize_old_cyrillic_data and
\* finalize, and the request does not end with the call's exception
C3_FallbackIsNormalizedHints ==
    /\ (pc = "merge" /\ CatalogFailed) =>
           info_data =
              finalize(
                  normalize_old_cyrillic_data(
                      normalize_strings(normalize_author_title(C3_HintsOnly).data)).data,
                  hints.isbn, hints.udk, hints.bbk).data
    /\ (pc = "done" /\ response = OnException("extraction")) => ~CatalogFailed

\* the completion call timed out on the GOST page: the record has the entry's title,
\* year and ISBN
C3_Witness ==
    /\ pc = "merge"
    /\ catalog_answer.kind = "transport"
    /\ info_data.title = PyStr(Batyi)
    /\ info_data.year = PyInt(2020)
    /\ info_data.isbn.s = <<"9", "7", "8", "5", "1", "7", "1", "2", "3", "4", "5", "6", "7">>

\* C4: every string field of a returned record is a non-empty string
C4_SentinelTotality ==
    Returned => \A f \in StrFields : Len(response.body[f]) > 0

\* C5: the year of a returned record is not negative
C5_YearNotNegative == Returned => response.body.year >= 0

\* the value the merge must give a field: the catalog's when known, else the cover's
\* when known, else the sentinel
C6_Preferred(f) ==
    IF info_data[f] \notin {Missing, PyStr(Unknown)} THEN info_data[f]
    ELSE IF cover_data[f] \notin {Missing, PyStr(Unknown)} THEN cover_data[f]
    ELSE PyStr(Unknown)

\* C6: title and author of a returned record are the catalog record's when it knows
\* them, else the cover record's when it knows them, else "unknown"
C6_MergePrecedence ==
    Returned =>
        /\ response.body.title = C6_Preferred("title").s
        /\ response.body.author = C6_Preferred("author").s

\* the catalog record has no title, the cover has one and it is returned
C6_Witness ==
    /\ Returned
    /\ info_data.title = PyStr(Unknown)
    /\ cover_data.title = PyStr(Batyi)
    /\ response.body.title = Batyi

\* C7: authors of a returned record is [author] when author is not "unknown", else
\* empty
C7_AuthorsFromAuthor ==
    Returned =>
        response.body.authors =
            IF response.body.author # Unknown THEN <<response.body.author>> ELSE <<>>

\* a record without author has no authors; the catalog had none and the cover's model
\* gave none
C7_Witness ==
    /\ Returned
    /\ response.body.author = Unknown
    /\ response.body.authors = <<>>
    /\ cover_data.author = PyStr(Unknown)
    /\ cover_data.title # PyStr(Unknown)

\* C8: the title of a returned record contains none of the garbage keywords, in any
\* case of letters
C8_NoGarbageTitle ==
    Returned => \A keyword \in garbage_keywords :
                    ~Contains(Lower(response.body.title), keyword)

\* the model gave "All Rights Reserved" as the title and the record has the sentinel
C8_Witness ==
    /\ Returned
    /\ catalog_answer.kind = "ok"
    /\ Truthy(catalog_answer.data.title)
    /\ IsStr(catalog_answer.data.title)
    /\ Contains(Lower(catalog_answer.data.title.s), <<"r", "e", "s", "e", "r", "v", "e", "d">>)
    /\ response.body.title = Unknown

\* an ISBN without its hyphens
C9_Digits(isbn) == SelectSeq(isbn, LAMBDA c : c # "-")

\* nine digits and a digit or X, or thirteen digits
C9_WellFormed(d) ==
    \/ /\ Len(d) = 10
       /\ \A i \in 1..9 : d[i] \in Digit
       /\ d[10] \in Digit \cup {"X"}
    \/ /\ Len(d) = 13
       /\ \A i \in 1..13 : d[i] \in Digit

\* C9: the isbn of a returned record is "unknown" or, without hyphens, ten characters
\* (nine digits and a digit or X) or thirteen digits
C9_IsbnShape ==
    Returned => response.body.isbn = Unknown \/ C9_WellFormed(C9_Digits(response.body.isbn))

\* the model gave "123" and the record has the sentinel; elsewhere a hyphenated
\* ISBN-13 is returned
C9_Witness ==
    /\ Returned
    /\ catalog_answer.kind = "ok"
    /\ catalog_answer.data.isbn = PyStr(<<"1", "2", "3">>)
    /\ response.body.isbn = Unknown

(***************************************************************************)
(* Properties of ocr.extract_isbn                                          *)
(***************************************************************************)
\* the digits of the number the text carries
C10_Number ==
    IF Contains(input, Isbn13) THEN C9_Digits(Isbn13) ELSE C9_Digits(Isbn10)

\* C10: ocr.extract_isbn returns the digits of the hyphenated ISBN after the marker,
\* whatever non-digit text stands before the marker and after the number
C10_ReturnsTheNumber == pc = "returned" => output = C10_Number

(***************************************************************************)
(* Properties of the hints                                                 *)
(***************************************************************************)
\* C11: app.extract_isbn returns "9785171234567" for every text that contains
\* "ISBN 978-5-17-123456-7", whatever words or lines follow the number, and "unknown"
\* for "ISBN 123"
C11_IsbnHint ==
    pc = "returned" =>
        /\ Contains(input, IsbnLine) =>
              hints.isbn = <<"9", "7", "8", "5", "1", "7", "1", "2", "3", "4", "5", "6", "7">>
        /\ input = ShortIsbnLine => hints.isbn = Unknown

\* C12: when the GOST parser finds an entry in the text, the title, publisher and
\* year hints are the entry's, and the author hint is the entry's when it has one,
\* whatever else the text contains
C12_CitationPrecedence ==
    pc = "returned" =>
        \A biblio \in {extract_bibliographic_entry(input)} :
            biblio.ok =>
                /\ hints.title = biblio.title
                /\ hints.publisher = biblio.publisher
                /\ hints.year = biblio.year
                /\ biblio.hasAuthor => hints.author = biblio.author

\* C13: for a text that contains the entry "K89 Kuvaev, O. M. -- Territoriya : roman.
\* -- Moskva : Azbuka, 2020. -- 416 s." the hints-only record has title
\* "Territoriya", author "Kuvaev O", publisher "Azbuka" and year 2020
C13_KuvaevRecord ==
    (pc = "returned" /\ Contains(input, Kuvaev)) =>
        /\ info_data.title = PyStr(<<"RU_TE", "ru_ie", "ru_er", "ru_er", "ru_i", "ru_te", "ru_o", "ru_er", "ru_i", "ru_ya">>)
        /\ info_data.author = PyStr(<<"RU_KA", "ru_u", "ru_ve", "ru_a", "ru_ie", "ru_ve", " ", "RU_O">>)
        /\ info_data.publisher = PyStr(<<"RU_A", "ru_ze", "ru_be", "ru_u", "ru_ka", "ru_a">>)
        /\ info_data.year = PyInt(2020)

(***************************************************************************)
(* Properties of clean_annotation                                          *)
(***************************************************************************)
\* C14: clean_annotation is idempotent: applied to its own result it returns that
\* result, for every text, the empty text, a text without sentence end and the
\* sentinel included
C14_Idempotent ==
    pc = "twice" => output = clean_annotation(PyStr(input)).data.s

(***************************************************************************)
(* Further properties of the /extract endpoint                             *)
(***************************************************************************)
\* the catalog record was made of a record without annotation: the hints-only record
\* of a failed call, or a model's object whose annotation is absent, null, empty or
\* the sentinel
C18_NoAnnotation ==
    /\ catalog_answer.kind # "none"
    /\ \/ catalog_answer.kind # "ok"
       \/ ~Truthy(catalog_answer.data.annotation)
       \/ catalog_answer.data.annotation = PyStr(Unknown)

\* C18: after finalize a record whose annotation was absent, empty or the sentinel
\* has annotation "unknown"; so has the hints-only fallback record
C18_AnnotationSentinel ==
    (pc = "merge" /\ C18_NoAnnotation) => info_data.annotation = PyStr(Unknown)

\* C19: for a title "Surname, Given. -- Rest", the dash an em dash or a hyphen,
\* normalize_author_title leaves author "Surname Given" and title Rest
C19_EmbeddedAuthor ==
    pc = "returned" =>
        \A surname \in Surnames, given \in GivenNames, dash \in Dashes, rest \in RestTitles :
            input = Embedded(surname, given, dash, rest) =>
                /\ info_data.author = PyStr(surname \o <<" ">> \o given)
                /\ info_data.title = PyStr(rest)

\* a full stop, blanks or none, and an em dash: the start of a ". --" tail
C20_DotDashAt(title, i) ==
    /\ title[i] = "EMDASH"
    /\ \E j \in 1..(i - 1) :
          title[j] = "." /\ \A k \in (j + 1)..(i - 1) : title[k] \in Space

\* C20: in every returned record a title other than "unknown" has no "/" and no ":"
\* and no ". --" tail
C20_CleanTitle ==
    (Returned /\ response.body.title # Unknown) =>
        /\ "/" \notin Range(response.body.title)
        /\ ":" \notin Range(response.body.title)
        /\ \A i \in DOMAIN response.body.title : ~C20_DotDashAt(response.body.title, i)

\* the completion calls of the request made for the cover or for the catalog text
C15_Completions(path) ==
    {i \in DOMAIN calls : calls[i].call = "completion" /\ calls[i].path = path}

\* C15: the recognition calls of a request all precede its completion calls; at
\* most one completion call is made for the cover and at most one for the catalog
\* text; after a failed completion call the request goes on with the fallback
\* record, the call is not made again
C15_CallOrder ==
    /\ \A i, j \in DOMAIN calls :
          (i < j /\ calls[i].call = "completion") => calls[j].call = "completion"
    /\ \A path \in {"cover", "catalog"} : Cardinality(C15_Completions(path)) <= 1
    /\ \A i \in C15_Completions("cover") :
          calls[i].outcome # "ok" => pc # "check" /\ cover_data = UnknownCover
    /\ \A i \in C15_Completions("catalog") :
          calls[i].outcome # "ok" => pc \in {"merge", "done"} /\ response # OnException("extraction")

\* a request with cover, info page and back cover: eight recognition calls, then the
\* cover completion, which failed, then the catalog completion, which timed out
C15_Witness ==
    /\ pc = "done"
    /\ Len(calls) = 10
    /\ \A i \in 1..8 : calls[i].call \in {"ocr", "vision"}
    /\ calls[9] = [call |-> "completion", path |-> "cover", outcome |-> "status"]
    /\ calls[10] = [call |-> "completion", path |-> "catalog", outcome |-> "transport"]
    /\ response.status = 200

\* an info page that recognition reads as blanks, the vision model not answering
C17_BlankScan == Scan(<<" ", "\n">>, <<>>, VisionDown)

\* every region the request supplied was read as blank: the cover if any, each info
\* page, and no back cover
C17_AllBlank ==
    /\ Blank(ocr_cover)
    /\ ~req.back_image
    /\ ocr_info = InfoText([i \in 1..req.info_images |-> C17_BlankScan], req.info_images)

\* C17: when recognition returns only blanks for every supplied region, info pages
\* included, the input error "No OCR text" is raised and no completion call is made
C17_BlankPagesAreNoText ==
    (pc = "done" /\ C17_AllBlank) =>
        /\ response.detail = "400: No OCR text"
        /\ \A i \in DOMAIN calls : calls[i].call # "completion"

(***************************************************************************)
(* Properties of requests served at once                                   *)
(***************************************************************************)
\* C16: however the statements of two requests interleave, the response to each is
\* what the endpoint makes of that request's own images and of the answers to its
\* own calls, and a statement of one request changes nothing of the other
C16_NoInterference ==
    \A client \in Clients :
        serving[client].pc = "done" =>
            serving[client].response = extract_metadata(serving[client].given)

\* both requests are answered, they were given different pages and different
\* answers, and the second finished recognition before the first began its calls
C16_Witness ==
    /\ serving["first"].pc = "done"
    /\ serving["second"].pc = "done"
    /\ serving["first"].given.page # serving["second"].given.page
    /\ serving["first"].given.catalog_answer.kind = "transport"
    /\ serving["second"].given.catalog_answer.kind = "ok"
    /\ serving["first"].response # serving["second"].response

(***************************************************************************)
(* Properties of finalize                                                  *)
(***************************************************************************)
HintedFields == {"isbn", "udk", "bbk"}

\* the model's value is missing, empty or "unknown"
C21_Absent(v) == v \in {Missing, PyNone, PyStr(<<>>), PyStr(Unknown)}

\* finalize of data under the hints h
C21_Finalized(data, h) == finalize(data, h.isbn, h.udk, h.bbk)

\* C21: after finalize returned, a field among isbn, udk and bbk whose value was
\* missing, empty or "unknown" is what finalize makes of the field's hint put in
\* its place, and a field whose value was present and not "unknown" is the same
\* whatever the field's hint is
C21_HintOnlyWhenAbsent ==
    pc = "returned" =>
        \A f \in HintedFields :
            IF C21_Absent(input[f])
            THEN info_data[f] =
                     C21_Finalized([input EXCEPT ![f] = PyStr(hints[f])], NoHints).data[f]
            ELSE \A h \in IsbnHints \cup CodeHints :
                     C21_Finalized(input, [hints EXCEPT ![f] = h]).data[f] = info_data[f]

\* the model's isbn is present and is rejected, the hint is a valid ISBN, and the
\* record's isbn is the sentinel; the model's udk is missing and the record's is
\* the hint's
C21_Witness ==
    /\ pc = "returned"
    /\ input.isbn = PyStr(<<"1", "2", "3">>)
    /\ hints.isbn # Unknown
    /\ info_data.isbn = PyStr(Unknown)
    /\ input.udk = Missing
    /\ hints.udk # Unknown
    /\ info_data.udk = PyStr(hints.udk)

\* C22: in every record finalize returns, an isbn other than "unknown" is made of
\* digits, with at most an X at its end
C22_DigitsAndX ==
    pc = "returned" =>
        \/ info_data.isbn = PyStr(Unknown)
        \/ /\ IsStr(info_data.isbn)
           /\ Len(info_data.isbn.s) > 0
           /\ \A i \in 1..Len(info_data.isbn.s) :
                 \/ info_data.isbn.s[i] \in Digit
                 \/ i = Len(info_data.isbn.s) /\ info_data.isbn.s[i] = "X"

(***************************************************************************)
(* Properties of the field extractors                                      *)
(***************************************************************************)
\* C23: every extractor returns for every text, and what it returns is a value
\* that is not empty or the sentinel: no string hint is "", and the year is a
\* number
C23_NeverEmpty ==
    pc = "returned" =>
        /\ \A f \in DOMAIN hints \ {"year"} : Len(hints[f]) > 0
        /\ hints.year \in Nat

(***************************************************************************)
(* Properties of the response parser                                       *)
(***************************************************************************)
\* the text has no { with a } after it
C24_NoSpan(text) ==
    ~\E i, j \in DOMAIN text : i < j /\ text[i] = "{" /\ text[j] = "}"

\* C24: for a response of one JSON object, fenced or not, with prose before and
\* after it, the answer is that object and the catalog record is the one made of
\* it; for a response without a span from { to } the answer is the no-JSON failure
\* and the record is the hints-only one
C24_ParsesTheObject ==
    pc = "returned" =>
        /\ \A before \in ProseBefore, fenced \in BOOLEAN, object \in ResponseObjects,
              after \in ProseAfter :
              input = Response(before, fenced, object, after) =>
                  /\ catalog_answer = Answer(object.data)
                  /\ info_data = Normalized(object.data, hints).data
        /\ C24_NoSpan(input) =>
              /\ catalog_answer = Failure("no_json")
              /\ info_data = Fallback(hints).data

(***************************************************************************)
(* Properties of the cover path                                            *)
(***************************************************************************)
CatalogOnlyFields == {"publisher", "year", "isbn", "udk", "bbk", "annotation"}

\* ocr_eng had the English pass read eng on the cover, the info pages being the
\* same
C25_EngHad(eng) ==
    CoverHeader \o eng \o SubSeq(ocr_eng, Len(CoverHeader) + Len(input) + 1, Len(ocr_eng))

\* C25: publisher, year, isbn, udk, bbk and annotation of a returned record are
\* the sentinels for a cover-only request, and with info pages they are the
\* catalog record's and the same whatever is read on the cover, the pages and the
\* model's answer being the same
C25_CoverGivesTitleAndAuthorOnly ==
    Returned =>
        /\ req.info_images = 0 =>
              /\ \A f \in CatalogOnlyFields \ {"year"} : response.body[f] = Unknown
              /\ response.body.year = 0
        /\ req.info_images > 0 =>
              /\ \A f \in CatalogOnlyFields \ {"year"} : response.body[f] = info_data[f].s
              /\ response.body.year = info_data.year.n
              /\ \A eng \in CoverEnglish, f \in CatalogOnlyFields :
                    extract_metadata_with_llm(ocr_info, C25_EngHad(eng), catalog_answer).data[f]
                        = info_data[f]

(***************************************************************************)
(* Properties of the English citation parser                               *)
(***************************************************************************)
\* C26: of a citation "Author. Title. Place: Publisher, Year" the parser returns
\* the leading name as author and the segment after it as title, a title with a
\* slash included; of a citation "Title / Author. - Place : Publisher, Year" it
\* returns the segment before the slash as title and the name after it as author
C26_FieldOrder ==
    (pc = "returned" /\ output.ok) =>
        \A before \in CitationsBefore, author \in EnglishAuthors, title \in EnglishTitles,
           after \in CitationsAfter :
            /\ input = before \o AuthorFirst(author, title) \o after =>
                  output.author = author /\ output.title = title
            /\ input = before \o TitleFirst(title, author) \o after =>
                  output.author = author /\ output.title = title

(***************************************************************************)
(* Properties of ocr_with_vision_fallback                                  *)
(***************************************************************************)
NoiseChars == {"|", ";", "@", "#"}

\* Tesseract's text is of decent quality: more than 50 characters between its
\* blank ends and no noise character among its first 20
C27_Decent(text) ==
    /\ Len(Strip(text)) > 50
    /\ \A i \in 1..20 : i <= Len(text) => text[i] \notin NoiseChars

\* C27: for a Tesseract text of decent quality the text is returned and no
\* request is made to the vision model; when the vision model fails or its text
\* is not longer than Tesseract's, Tesseract's text is returned
C27_VisionOnlyAsFallback ==
    pc = "returned" =>
        /\ C27_Decent(input.tesseract_result) =>
              output = input.tesseract_result /\ calls = <<>>
        /\ (~input.vision.ok
            \/ Len(Strip(input.vision.text)) <= Len(Strip(input.tesseract_result))) =>
              output = input.tesseract_result

(***************************************************************************)
(* Properties of the catalog record                                        *)
(***************************************************************************)
ModelOnlyFields == {"title", "author", "publisher", "year", "annotation"}

\* C28: when the catalog call succeeded and its JSON parsed, title, author,
\* publisher, year and annotation of the catalog record are what they would be
\* with no hint known: the hints of these fields are not in the record
C28_NoHintSubstituted ==
    (pc = "merge" /\ catalog_answer.kind = "ok") =>
        \A f \in ModelOnlyFields :
            info_data[f] = CatalogRecord(NoHints, catalog_answer).data[f]

\* ocr_eng without what the cover added to it
C29_InfoEng == SubSeq(ocr_eng, Len(CoverHeader) + Len(input) + 2, Len(ocr_eng))

\* the response made of the catalog record without a cover record and a cover text
C29_WithoutCover == Validated200(Merge(info_data, NoCoverData), RawOcr(<<>>, ocr_info))

\* C29: after a cover completion call that failed the cover record is the two
\* sentinels, the catalog extraction runs, and title, author, publisher, year,
\* isbn, udk, bbk and annotation of the returned record are those of the same
\* request without a cover image: the hints of the catalog extraction are those of
\* the info pages alone, and the record is made of the catalog record alone
C29_CoverFailureIsolated ==
    \A i \in DOMAIN calls :
        (calls[i].call = "completion" /\ calls[i].path = "cover" /\ calls[i].outcome # "ok") =>
            /\ cover_data = UnknownCover
            /\ pc = "catalog" => hints = HintBundle(CombinedText(ocr_info, C29_InfoEng))
            /\ (Returned /\ req.info_images > 0) =>
                  /\ catalog_answer.kind # "none"
                  /\ C29_WithoutCover.status = 200
                  /\ \A f \in Fields : response.body[f] = C29_WithoutCover.body[f]

\* the channel the i-th call of Tesseract is made on
C30_ChannelOf(i) == ChannelOrder[(i + 1) \div 2]

\* the length of the longest text among the first n read
C30_Longest(n) ==
    CHOOSE m \in {0} \cup {Len(calls[i].outcome) : i \in 1..n} :
        \A i \in 1..n : Len(calls[i].outcome) <= m

\* C30: ocr_image_rgb_channels tries the channels in the order G, M, original,
\* then R, B, then C, Y, K; it goes on to R and B only if the longest text of the
\* first phase has fewer than 20 characters, and to C, Y, K only if the longest
\* text of the phases before still has fewer than 20; it returns as soon as a
\* channel gives a text longer than every text before and at least 40 characters
\* long; and the text returned is as long as the longest text read from any
\* variant, normal or inverted, tried before it returned
C30_ProgressiveSelection ==
    /\ \A i \in DOMAIN calls :
           calls[i].path \in {C30_ChannelOf(i), InvName[C30_ChannelOf(i)]}
    /\ Len(calls) > 2 * Len(Phase1) => C30_Longest(2 * Len(Phase1)) < 20
    /\ Len(calls) > 2 * Len(Phase1 \o Phase2) =>
           C30_Longest(2 * Len(Phase1 \o Phase2)) < 20
    /\ \A k \in DOMAIN ChannelOrder :
           ( /\ Len(calls) >= 2 * k
             /\ C30_Longest(2 * k) >= 40
             /\ C30_Longest(2 * k) > C30_Longest(2 * k - 2) ) =>
               /\ Len(calls) = 2 * k
               /\ pc = "returned"
    /\ pc = "returned" =>
           /\ Len(calls) > 0
           /\ Len(output) = C30_Longest(Len(calls))

\* a cover whose first 40 characters come from the inverted yellow channel, after
\* both tests of the length let the function go on
C30_Witness ==
    /\ pc = "returned"
    /\ Len(calls) = 14
    /\ best_result.name = "Y-inv"
    /\ Len(output) = 40
    /\ C30_Longest(12) = 5
====
